---- MODULE Spec2Model ----
(***************************************************************************)
(* The ingestion-and-transcription pipeline of the backend:                *)
(*   backend/app/core/file_watcher.py      (AudioFileHandler, FileWatcher) *)
(*   backend/app/core/whisper_processor.py (WhisperProcessor)              *)
(*   backend/app/models/day.py, fragment.py (the registry rows)            *)
(*                                                                         *)
(* Execution contexts: the asyncio event-loop thread (start, stop, the     *)
(* processing loop and one task per dispatched file; they interleave only  *)
(* at an await), the watchdog observer thread (the filesystem event        *)
(* handler), the default executor (the engine call), and the environment   *)
(* (the recorder writing files, the database going down, the process being *)
(* restarted).                                                             *)
(***************************************************************************)
EXTENDS Integers, Sequences, FiniteSets, TLC

\* ---------------------------------------------------------------- bounds
MaxSize == 2        \* file sizes are 0..MaxSize
MaxEvents == 3      \* filesystem events delivered to the handler
MaxRestarts == 1    \* process restarts
MaxStops == 1       \* stop() calls
MaxDbFlips == 1     \* times the database becomes unavailable
MaxSendRetries == 3 \* the largest max_retries the file sender is configured with

\* ------------------------------------------------------------- constants
TickInterval == 5   \* await asyncio.sleep(5) at the end of a tick
MaxRetries == 3     \* the retry budget the tests configure
LongInterval == 10  \* the interval the tests expect under load
LoadThreshold == 5  \* the number of tasks the tests call a load

\* ---------------------------------------------------------------- values
Null == <<>>
Some(v) == <<v>>

\* A path is the tuple of its parts (pathlib's Path.parts).
P1 == <<"recordings", "2024-01-15", "2024-01-15_14-30-00.wav">>
P2 == <<"recordings", "2024-01-15", "audio.wav">>
P3 == <<"recordings", "invalid", "audio.wav">>
P4 == <<"recordings", "2024-01-15", "2024-01-15_15-00-00.wav">>
P5 == <<"recordings", "2024-01-15", "2024-01-15_25-61-00.wav">>
P6 == <<"recordings", "2024-13-45", "audio.wav">>
WavPaths == {P1, P2, P3, P4, P5, P6}
\* the order in which rglob yields the files
ScanOrder == <<P1, P2, P3, P4, P5, P6>>

\* other entries of the recordings directory: a recording under the name it
\* has while it is copied, a file that is no recording, the directory of a
\* day, and a directory whose name ends like a recording's
PartFile == <<"recordings", "2024-01-15", "2024-01-15_14-30-00.wav.part">>
NotesFile == <<"recordings", "2024-01-15", "notes.txt">>
DayDir == <<"recordings", "2024-01-15">>
WavDir == <<"recordings", "archive.wav">>

\* the names s with s.endswith('.wav')
WavSuffixed == {p[Len(p)] : p \in WavPaths} \cup {"archive.wav"}

\* the events watchdog delivers to the handler
FileCreated(p) ==
  [kind |-> "created", is_directory |-> FALSE, src_path |-> p, dest_path |-> <<>>]
OtherEvents ==
  { [kind |-> "moved", is_directory |-> FALSE, src_path |-> PartFile, dest_path |-> P1],
    [kind |-> "moved", is_directory |-> FALSE, src_path |-> P1, dest_path |-> PartFile],
    [kind |-> "moved", is_directory |-> TRUE, src_path |-> DayDir, dest_path |-> WavDir],
    [kind |-> "created", is_directory |-> FALSE, src_path |-> NotesFile, dest_path |-> <<>>],
    [kind |-> "created", is_directory |-> FALSE, src_path |-> PartFile, dest_path |-> <<>>],
    [kind |-> "created", is_directory |-> TRUE, src_path |-> DayDir, dest_path |-> <<>>],
    [kind |-> "created", is_directory |-> TRUE, src_path |-> WavDir, dest_path |-> <<>>],
    [kind |-> "modified", is_directory |-> FALSE, src_path |-> P1, dest_path |-> <<>>],
    [kind |-> "deleted", is_directory |-> FALSE, src_path |-> P1, dest_path |-> <<>>] }
NoEvent ==
  [kind |-> "none", is_directory |-> FALSE, src_path |-> <<>>, dest_path |-> <<>>]

\* parts with len(part) == 10 and part.count('-') == 2
DateShaped == {"2024-01-15", "2024-13-45"}
\* parts that datetime.strptime(part, "%Y-%m-%d") accepts
ParsesAsDate == {"2024-01-15"}

\* filename.replace('.wav', '').split('_') for the file names above
UnderscoreTokens ==
  ("2024-01-15_14-30-00.wav" :> <<"2024-01-15", "14-30-00">>) @@
  ("2024-01-15_15-00-00.wav" :> <<"2024-01-15", "15-00-00">>) @@
  ("2024-01-15_25-61-00.wav" :> <<"2024-01-15", "25-61-00">>) @@
  ("audio.wav" :> <<"audio">>)
\* time_part.replace('-', ':') for the tokens that strptime(.., "%H:%M:%S")
\* accepts
ParsesAsTime ==
  ("14-30-00" :> "14:30:00") @@ ("15-00-00" :> "15:00:00")
\* datetime.now().time(), whatever the clock shows
WallClock == "now"

\* the dictionaries transcribe_file can return
\* the text _mock_transcribe makes from Path(file_path).name
MockText ==
  ("2024-01-15_14-30-00.wav" :> "[mock] 2024-01-15_14-30-00.wav") @@
  ("2024-01-15_15-00-00.wav" :> "[mock] 2024-01-15_15-00-00.wav") @@
  ("2024-01-15_25-61-00.wav" :> "[mock] 2024-01-15_25-61-00.wav") @@
  ("audio.wav" :> "[mock] audio.wav")

\* the mock's result without its segment
mock_transcribe_no_segments(file_path) ==
  [text |-> MockText[file_path[Len(file_path)]],
   segments |-> <<>>,
   duration |-> Some(10), model |-> "mock"]

\* the dictionary _mock_transcribe returns
mock_transcribe(file_path) ==
  [text |-> MockText[file_path[Len(file_path)]],
   segments |-> <<[start |-> 0, end |-> 10]>>,
   duration |-> Some(10), model |-> "mock"]

MockResult == mock_transcribe(P1)
\* what model.transcribe returns: a recording with speech, and a silent one
\* (no segments); neither has a duration
RawResults ==
  { [text |-> " speech", segments |-> <<[start |-> 0, end |-> 3]>>],
    [text |-> "", segments |-> <<>>] }
\* str.strip() for the texts above
Strip == (" speech" :> "speech") @@ ("" :> "")

\* the formatting without the default of the duration
format_result_no_default(raw, model) ==
  [text |-> Strip[raw.text],
   segments |-> raw.segments,
   duration |-> IF Len(raw.segments) > 0
                THEN Some(raw.segments[Len(raw.segments)].end) ELSE Null,
   model |-> model]

\* the dictionary _transcribe_sync builds from the engine's result: the
\* stripped text, and as duration the end of the last segment, 0 without
\* segments
format_result(raw, model) ==
  [text |-> Strip[raw.text],
   segments |-> raw.segments,
   duration |-> IF Len(raw.segments) > 0
                THEN Some(raw.segments[Len(raw.segments)].end) ELSE Some(0),
   model |-> model]

EngineResults == {format_result(raw, "large-v3") : raw \in RawResults}

\* the deployments: MOCK_WHISPER, whether the whisper library imports and the
\* model loads, and whether _transcribe_sync installs the SIGALRM handler
\* (platform is not Windows and timeout > 0)
MockMode    == [mock_whisper |-> TRUE,  whisper |-> "loads",      alarm |-> TRUE]
NoWhisper   == [mock_whisper |-> FALSE, whisper |-> "missing",    alarm |-> TRUE]
LoadFails   == [mock_whisper |-> FALSE, whisper |-> "load_fails", alarm |-> TRUE]
EngineAlarm == [mock_whisper |-> FALSE, whisper |-> "loads",      alarm |-> TRUE]
EngineFree  == [mock_whisper |-> FALSE, whisper |-> "loads",      alarm |-> FALSE]
Configs == {MockMode, NoWhisper, LoadFails, EngineAlarm, EngineFree}

\* The environments explored.  Each fixes which files the recorder produces,
\* whether they are seen while still being written, how many events,
\* restarts, stop() calls and registry outages occur, and whether the
\* recordings directory exists when start() runs.
Scenarios ==
  { \* three recordings arrive complete, one of them outside a date directory
    [name |-> "steady", paths |-> {P1, P2, P3}, writing |-> FALSE,
     configs |-> {MockMode, NoWhisper, LoadFails, EngineAlarm},
     max_events |-> MaxEvents, max_restarts |-> 0, max_stops |-> 0,
     max_dbflips |-> 0, root |-> TRUE],
    \* two recordings arrive complete where the engine runs without the alarm
    [name |-> "engine", paths |-> {P1, P2}, writing |-> FALSE,
     configs |-> {EngineFree},
     max_events |-> MaxEvents - 1, max_restarts |-> 0, max_stops |-> 0,
     max_dbflips |-> 0, root |-> TRUE],
    \* one recording is seen while it is written
    [name |-> "writing", paths |-> {P1}, writing |-> TRUE,
     configs |-> {MockMode},
     max_events |-> MaxEvents - 1, max_restarts |-> 0, max_stops |-> 0,
     max_dbflips |-> 0, root |-> TRUE],
    \* one recording arrives complete and nothing else happens
    [name |-> "single", paths |-> {P1}, writing |-> FALSE,
     configs |-> {MockMode},
     max_events |-> MaxEvents - 1, max_restarts |-> 0, max_stops |-> 0,
     max_dbflips |-> 0, root |-> TRUE],
    \* the process is restarted over the same registry and the same files,
    \* with the registry unavailable for a while
    [name |-> "restart", paths |-> {P1}, writing |-> FALSE,
     configs |-> {MockMode},
     max_events |-> MaxEvents - 1, max_restarts |-> MaxRestarts, max_stops |-> 0,
     max_dbflips |-> MaxDbFlips, root |-> TRUE],
    \* the registry becomes unavailable while two recordings are processed
    [name |-> "outage", paths |-> {P1, P2}, writing |-> FALSE,
     configs |-> {MockMode},
     max_events |-> MaxEvents - 1, max_restarts |-> 0, max_stops |-> 0,
     max_dbflips |-> MaxDbFlips, root |-> TRUE],
    \* the watcher is stopped and started again
    [name |-> "lifecycle", paths |-> {P1, P2}, writing |-> FALSE,
     configs |-> {MockMode},
     max_events |-> MaxEvents - 1, max_restarts |-> 0, max_stops |-> MaxStops,
     max_dbflips |-> 0, root |-> TRUE],
    \* two recordings outside a date directory: the directory name is no date,
    \* or has the shape of a date and is none
    [name |-> "undated", paths |-> {P3, P6}, writing |-> FALSE,
     configs |-> {MockMode},
     max_events |-> MaxEvents - 1, max_restarts |-> 0, max_stops |-> 0,
     max_dbflips |-> 0, root |-> TRUE],
    \* the recordings directory is missing; the watcher is started, stopped
    \* and started again
    [name |-> "noroot", paths |-> {}, writing |-> FALSE,
     configs |-> {MockMode},
     max_events |-> 0, max_restarts |-> 0, max_stops |-> MaxStops,
     max_dbflips |-> 0, root |-> FALSE],
    \* the Pi's file sender sends files while the watcher has nothing to do
    [name |-> "sender", paths |-> {}, writing |-> FALSE,
     configs |-> {MockMode},
     max_events |-> 0, max_restarts |-> 0, max_stops |-> 0,
     max_dbflips |-> 0, root |-> TRUE],
    \* two recordings of one date appear, each written in one piece, after the
    \* watcher was constructed
    [name |-> "arrivals", paths |-> {P1, P4}, writing |-> TRUE,
     configs |-> {MockMode},
     max_events |-> MaxEvents - 1, max_restarts |-> 0, max_stops |-> 0,
     max_dbflips |-> 0, root |-> TRUE],
    \* the Pi's monitoring: recordings appear and age, are found, sent and
    \* cleaned up
    [name |-> "pi", paths |-> {}, writing |-> FALSE,
     configs |-> {MockMode},
     max_events |-> 0, max_restarts |-> 0, max_stops |-> 0,
     max_dbflips |-> 0, root |-> TRUE],
    \* one recording arrives complete among events of every kind
    [name |-> "events", paths |-> {P1}, writing |-> FALSE,
     configs |-> {MockMode},
     max_events |-> MaxEvents - 1, max_restarts |-> 0, max_stops |-> 0,
     max_dbflips |-> 0, root |-> TRUE],
    \* a backlog: five recordings arrive complete, in the order of their names
    [name |-> "backlog", paths |-> {P1, P2, P3, P4, P5}, writing |-> FALSE,
     configs |-> {MockMode},
     max_events |-> LoadThreshold, max_restarts |-> 0, max_stops |-> 0,
     max_dbflips |-> 0, root |-> TRUE] }

VARIABLES
  \* FileWatcher fields
  is_running, observer, pending_files, processed_files, processing_tasks,
  \* the asyncio tasks created by processing_loop, in creation order
  tasks,
  \* processing_loop coroutines alive, and the one between its two statements
  \* list(self.pending_files) and self.pending_files.clear()
  loops, tick_pc, files_to_process, last_sleep,
  \* stop(): idle, or awaiting asyncio.gather over stop_await
  stop_pc, stop_await,
  \* the observer thread inside add_pending_file, and the event whose handler
  \* called it
  obs_pc, obs_path, event,
  \* WhisperProcessor fields
  model_loaded, is_initialized,
  \* the registry (database rows; survive a restart)
  days, fragments, db_down,
  \* the filesystem: the size of every recording
  fsize,
  \* the deployment and the environment
  cfg, scn,
  \* the Pi's FileSender: its configuration, sent_files and the cache file of
  \* it, the recordings below source_path (absent, new, or old: mtime before
  \* the retention cutoff); history: the last send_file call, the files whose
  \* copy was confirmed, the last find_new_files result with the sent_files
  \* it was computed from
  sender,
  \* budgets
  n_events, n_restarts, n_stops, n_dbflips,
  \* history: per path, add_file_to_database calls, Day increments, the last
  \* return value, the size samples of the is_file_ready before the last call
  reg_calls, incr, last_ret, samples,
  \* history: the last engine-mode call of transcribe_file
  last_call,
  \* history: the number of model loads since the WhisperProcessor was
  \* constructed or cleaned up
  n_loads,
  \* history: how many tasks the last tick launched and how many drained paths
  \* it skipped because their task was still running
  tick_hist

watcher_vars == <<is_running, observer, pending_files, processed_files,
                  processing_tasks, tasks, loops, tick_pc, files_to_process,
                  last_sleep, stop_pc, stop_await, obs_pc, obs_path, event>>
whisper_vars == <<model_loaded, is_initialized>>
registry_vars == <<days, fragments>>
fs_vars == <<fsize>>
budget_vars == <<n_events, n_restarts, n_stops, n_dbflips>>
reg_hist == <<reg_calls, incr, last_ret, samples>>
hist_vars == <<reg_calls, incr, last_ret, samples, last_call, n_loads, tick_hist>>
env_vars == <<cfg, scn, sender>>

vars == <<watcher_vars, whisper_vars, registry_vars, db_down, fs_vars, env_vars,
          budget_vars, hist_vars>>

\* ------------------------------------------------------- pure functions

\* config source_path of the file sender, a recording below it, and a file
\* that is not below it
SourcePath == <<"home", "pi", "recordings">>
SentFile == <<"home", "pi", "recordings", "2024-01-15", "2024-01-15_14-30-00.wav">>
OtherFile == <<"home", "pi", "recordings", "2024-01-15", "2024-01-15_15-00-00.wav">>
FakeFile == <<"fake", "test.wav">>
LocalFiles == {SentFile, OtherFile}
SenderFiles == LocalFiles \cup {FakeFile}

\* local_path.relative_to(source_path) does not raise
relative_to_defined(path, root) ==
  Len(path) > Len(root) /\ SubSeq(path, 1, Len(root)) = root

\* what the PC does with the commands of one attempt: mkdir fails, scp
\* fails, the stat of the verification fails, stat gives another size than
\* the local one, or all is well
Outcomes == {"mkdir_fails", "scp_fails", "stat_fails", "size_differs", "ok"}

\* one pass of the loop of send_file adding the file whatever
\* _verify_remote_file returned
attempt_sends_unverified(local_path, outcome, verify) ==
  IF ~relative_to_defined(local_path, SourcePath) THEN FALSE
  ELSE IF outcome = "mkdir_fails" THEN FALSE
  ELSE IF outcome = "scp_fails" THEN FALSE
  ELSE TRUE

\* one pass of the loop of send_file: whether the file is added to sent_files
attempt_sends(local_path, outcome, verify) ==
  IF ~relative_to_defined(local_path, SourcePath) THEN FALSE
  ELSE IF outcome = "mkdir_fails" THEN FALSE
  ELSE IF outcome = "scp_fails" THEN FALSE
  ELSE IF verify THEN outcome = "ok"
  ELSE TRUE

\* the subprocess.run calls of one pass of the loop: none when relative_to
\* raises, ssh mkdir, then scp, then the ssh stat of _verify_remote_file
attempt_commands(local_path, outcome, verify) ==
  IF ~relative_to_defined(local_path, SourcePath) THEN 0
  ELSE IF outcome = "mkdir_fails" THEN 1
  ELSE IF outcome = "scp_fails" THEN 2
  ELSE IF verify THEN 3
  ELSE 2

\* the subprocess.run calls of the first n passes
RECURSIVE commands_run(_, _, _, _)
commands_run(local_path, outcomes, n, verify) ==
  IF n = 0 THEN 0
  ELSE commands_run(local_path, outcomes, n - 1, verify)
       + attempt_commands(local_path, outcomes[n], verify)

\* FileSender.find_new_files: the recordings below source_path (local gives
\* absent, new or old for each) that are not in sent_files and pass
\* _is_file_ready
find_new_files(local, sent, ready) ==
  {f \in LocalFiles : local[f] # "absent" /\ f \notin sent /\ f \in ready}

\* cleanup_old_files deleting every old recording, sent or not
cleanup_old_files_any(local, sent, unlinked) ==
  LET removed == {f \in LocalFiles : local[f] = "old" /\ f \in unlinked}
  IN [local |-> [f \in LocalFiles |-> IF f \in removed THEN "absent" ELSE local[f]],
      sent_files |-> sent \ removed,
      removed_count |-> Cardinality(removed)]

\* FileSender.cleanup_old_files: a recording in sent_files whose mtime is
\* before the cutoff (old) is unlinked and, when unlink did not raise
\* (unlinked), discarded from sent_files
cleanup_old_files(local, sent, unlinked) ==
  LET removed == {f \in LocalFiles : /\ local[f] # "absent"
                                     /\ f \in sent
                                     /\ local[f] = "old"
                                     /\ f \in unlinked}
  IN [local |-> [f \in LocalFiles |-> IF f \in removed THEN "absent" ELSE local[f]],
      sent_files |-> sent \ removed,
      removed_count |-> Cardinality(removed)]

\* send_file giving up after the first failed attempt
send_file_no_retry(sent, local_path, outcomes, attempt, max_retries, verify) ==
  IF attempt >= max_retries
  THEN [ret |-> FALSE, sent_files |-> sent, attempts |-> attempt]
  ELSE IF attempt_sends(local_path, outcomes[attempt + 1], verify)
  THEN [ret |-> TRUE, sent_files |-> sent \cup {local_path}, attempts |-> attempt + 1]
  ELSE [ret |-> FALSE, sent_files |-> sent, attempts |-> attempt + 1]

\* FileSender.send_file from iteration attempt of range(max_retries) on:
\* the return value, sent_files, and the number of attempts made
RECURSIVE send_file(_, _, _, _, _, _)
send_file(sent, local_path, outcomes, attempt, max_retries, verify) ==
  IF attempt >= max_retries
  THEN [ret |-> FALSE, sent_files |-> sent, attempts |-> attempt]
  ELSE IF attempt_sends(local_path, outcomes[attempt + 1], verify)
  THEN [ret |-> TRUE, sent_files |-> sent \cup {local_path}, attempts |-> attempt + 1]
  ELSE IF attempt < max_retries - 1
  THEN send_file(sent, local_path, outcomes, attempt + 1, max_retries, verify)
  ELSE [ret |-> FALSE, sent_files |-> sent, attempts |-> attempt + 1]

\* is_file_ready without the comparison of the two samples
is_file_ready_one_sample(exists, size1, size2) == exists /\ size1 > 0

\* FileWatcher.is_file_ready: two stat() calls (the asyncio.sleep between them
\* is never awaited); a stat() of a missing file raises and gives False
is_file_ready(exists, size1, size2) == exists /\ size1 = size2 /\ size1 > 0

\* the scan for a date taking every part that has the shape of one
RECURSIVE date_scan_shape_only(_, _)
date_scan_shape_only(parts, i) ==
  IF i = 0 THEN Null
  ELSE IF parts[i] \in DateShaped
       THEN Some(parts[i])
       ELSE date_scan_shape_only(parts, i - 1)

\* FileWatcher.extract_date_from_path: the last part that has the shape of a
\* date and parses as one
RECURSIVE date_scan(_, _)
date_scan(parts, i) ==
  IF i = 0 THEN Null
  ELSE IF parts[i] \in DateShaped /\ parts[i] \in ParsesAsDate
       THEN Some(parts[i])
       ELSE date_scan(parts, i - 1)

extract_date_from_path(file_path) == date_scan(file_path, Len(file_path))

\* str.endswith('.wav') of a path
endswith_wav(path) == path # <<>> /\ path[Len(path)] \in WavSuffixed

\* on_moved taking the path the file was moved from
on_moved_src(e) ==
  IF ~e.is_directory /\ endswith_wav(e.src_path) THEN Some(e.src_path) ELSE Null

\* AudioFileHandler.on_created: the argument of add_pending_file, if called
on_created(e) ==
  IF ~e.is_directory /\ endswith_wav(e.src_path) THEN Some(e.src_path) ELSE Null

\* AudioFileHandler.on_moved: the argument of add_pending_file, if called
on_moved(e) ==
  IF ~e.is_directory /\ endswith_wav(e.dest_path) THEN Some(e.dest_path) ELSE Null

\* FileSystemEventHandler.dispatch: the handler method of the event's kind;
\* the methods AudioFileHandler does not override do nothing
handler_dispatch(e) ==
  IF e.kind = "created" THEN on_created(e)
  ELSE IF e.kind = "moved" THEN on_moved(e)
  ELSE Null

\* the events of the scenario
EventsOf(s) ==
  {FileCreated(p) : p \in s.paths} \cup
  (IF s.name = "events" THEN OtherEvents ELSE {})

\* the start time taken from the token without the fallback
extract_start_time_unparsed(filename, date) ==
  LET tokens == UnderscoreTokens[filename]
  IN IF Len(tokens) >= 2 THEN <<date, tokens[2]>> ELSE <<date, WallClock>>

\* FileWatcher.extract_start_time_from_filename: the date combined with the
\* time of day of the second '_' token of the name, if there is one and it
\* parses, and with the wall clock's otherwise
extract_start_time_from_filename(filename, date) ==
  LET tokens == UnderscoreTokens[filename]
  IN IF Len(tokens) >= 2 /\ tokens[2] \in DOMAIN ParsesAsTime
     THEN <<date, ParsesAsTime[tokens[2]]>>
     ELSE <<date, WallClock>>

\* db.query(Day).filter(Day.date == d).first(): the row id, 0 for None
find_day(ds, d) ==
  IF \E i \in 1..Len(ds) : ds[i].date = d
  THEN CHOOSE i \in 1..Len(ds) :
         ds[i].date = d /\ \A j \in 1..(i - 1) : ds[j].date # d
  ELSE 0

\* db.query(Fragment).filter(Fragment.file_path == p).first()
find_fragment(fs, p) ==
  IF \E i \in 1..Len(fs) : fs[i].file_path = p
  THEN CHOOSE i \in 1..Len(fs) :
         fs[i].file_path = p /\ \A j \in 1..(i - 1) : fs[j].file_path # p
  ELSE 0

\* Day(date=d) with the column defaults
NewDay(d) == [date |-> d, total_fragments |-> 0, total_duration_seconds |-> 0]

\* Fragment(...) with the column defaults
NewFragment(day_id, p) ==
  [day_id |-> day_id, file_path |-> p,
   start_time |-> extract_start_time_from_filename(
                    p[Len(p)], extract_date_from_path(p)[1]),
   transcribed |-> FALSE, transcript_text |-> Null, duration_seconds |-> Null,
   whisper_segments |-> Null, whisper_model_used |-> Null, processing_error |-> Null, retry_count |-> 0]

\* add_file_to_database without the lookup of an existing Fragment
add_file_to_database_no_lookup(ds, fs, file_path, exists, down) ==
  LET date_str == extract_date_from_path(file_path)
      unchanged == [days |-> ds, fragments |-> fs, ret |-> 0, incremented |-> FALSE]
  IN
  IF date_str = Null THEN unchanged
  ELSE IF down THEN unchanged
  ELSE
    LET d == date_str[1]
        ds1 == IF find_day(ds, d) = 0 THEN Append(ds, NewDay(d)) ELSE ds
        day_id == find_day(ds1, d)
    IN
    IF ~exists
    THEN [days |-> ds1, fragments |-> fs, ret |-> 0, incremented |-> FALSE]
    ELSE [days |-> [ds1 EXCEPT ![day_id].total_fragments = @ + 1],
          fragments |-> Append(fs, NewFragment(day_id, file_path)),
          ret |-> Len(fs) + 1,
          incremented |-> TRUE]

\* add_file_to_database making a Day without looking for one
add_file_to_database_new_day(ds, fs, file_path, exists, down) ==
  LET date_str == extract_date_from_path(file_path)
      unchanged == [days |-> ds, fragments |-> fs, ret |-> 0, incremented |-> FALSE]
  IN
  IF date_str = Null THEN unchanged
  ELSE IF down THEN unchanged
  ELSE
    LET d == date_str[1]
        ds1 == Append(ds, NewDay(d))
        day_id == Len(ds1)
        existing == find_fragment(fs, file_path)
    IN
    IF existing # 0
    THEN [days |-> ds1, fragments |-> fs, ret |-> existing, incremented |-> FALSE]
    ELSE IF ~exists
    THEN [days |-> ds1, fragments |-> fs, ret |-> 0, incremented |-> FALSE]
    ELSE [days |-> [ds1 EXCEPT ![day_id].total_fragments = @ + 1],
          fragments |-> Append(fs, NewFragment(day_id, file_path)),
          ret |-> Len(fs) + 1,
          incremented |-> TRUE]

\* add_file_to_database with the Fragment row committed before the counter
add_file_to_database_two_commits(ds, fs, file_path, exists, down) ==
  LET r == add_file_to_database_no_lookup(ds, fs, file_path, TRUE, down)
      existing == find_fragment(fs, file_path)
  IN IF existing # 0 \/ r.ret = 0
     THEN [days |-> r.days, fragments |-> fs, ret |-> existing, incremented |-> FALSE]
     ELSE IF exists THEN r
     ELSE [days |-> ds, fragments |-> r.fragments, ret |-> 0, incremented |-> FALSE]

\* FileWatcher.add_file_to_database on registry (ds, fs): the registry after
\* the call, the returned Fragment id (0 for None) and whether the Day counter
\* was incremented.  Any exception is caught and gives None: the registry is
\* down, or (exists false) the steps after the commit of the Day fail, be it
\* file_path.stat() or the second commit; what was committed before stays.
add_file_to_database(ds, fs, file_path, exists, down) ==
  LET date_str == extract_date_from_path(file_path)
      unchanged == [days |-> ds, fragments |-> fs, ret |-> 0, incremented |-> FALSE]
  IN
  IF date_str = Null THEN unchanged
  ELSE IF down THEN unchanged
  ELSE
    LET d == date_str[1]
        ds1 == IF find_day(ds, d) = 0 THEN Append(ds, NewDay(d)) ELSE ds
        day_id == find_day(ds1, d)
        existing == find_fragment(fs, file_path)
    IN
    IF existing # 0
    THEN [days |-> ds1, fragments |-> fs, ret |-> existing, incremented |-> FALSE]
    ELSE IF ~exists
    THEN [days |-> ds1, fragments |-> fs, ret |-> 0, incremented |-> FALSE]
    ELSE [days |-> [ds1 EXCEPT ![day_id].total_fragments = @ + 1],
          fragments |-> Append(fs, NewFragment(day_id, file_path)),
          ret |-> Len(fs) + 1,
          incremented |-> TRUE]

\* the success branch without the transcribed flag
commit_result_unflagged(ds, fs, fid, result) ==
  [fragments |-> [fs EXCEPT ![fid].transcript_text = Some(result.text)],
   days |-> ds]

\* the success branch writing the duration of the Fragment over the total of
\* the Day, as from a Day read before the other task committed
commit_result_overwrite(ds, fs, fid, result) ==
  LET f1 == [fs[fid] EXCEPT !.transcript_text = Some(result.text),
                            !.whisper_segments = Some(result.segments),
                            !.whisper_model_used = Some(result.model),
                            !.transcribed = TRUE,
                            !.duration_seconds = result.duration]
      truthy == f1.duration_seconds # Null /\ f1.duration_seconds # Some(0)
      day_id == f1.day_id
  IN
  [fragments |-> [fs EXCEPT ![fid] = f1],
   days |-> IF truthy /\ day_id \in 1..Len(ds)
            THEN [ds EXCEPT ![day_id].total_duration_seconds =
                               f1.duration_seconds[1]]
            ELSE ds]

\* the success branch of FileWatcher.transcribe_fragment: one commit of the
\* Fragment fields and of the Day's duration
commit_result(ds, fs, fid, result) ==
  LET f1 == [fs[fid] EXCEPT !.transcript_text = Some(result.text),
                            !.whisper_segments = Some(result.segments),
                            !.whisper_model_used = Some(result.model),
                            !.transcribed = TRUE,
                            !.duration_seconds = result.duration]
      truthy == f1.duration_seconds # Null /\ f1.duration_seconds # Some(0)
      day_id == f1.day_id
  IN
  [fragments |-> [fs EXCEPT ![fid] = f1],
   days |-> IF truthy /\ day_id \in 1..Len(ds)
            THEN [ds EXCEPT ![day_id].total_duration_seconds =
                               @ + f1.duration_seconds[1]]
            ELSE ds]

\* the except branch writing the error into every Fragment
record_error_all(fs, fid, msg) ==
  [f \in 1..Len(fs) |-> [fs[f] EXCEPT !.processing_error = Some(msg),
                                      !.retry_count = @ + 1]]

\* the except branch of FileWatcher.transcribe_fragment, when its own session
\* works: the error text and the retry counter
record_error(fs, fid, msg) ==
  [fs EXCEPT ![fid].processing_error = Some(msg),
             ![fid].retry_count = @ + 1]

\* --------------------------------------------------------------- helpers

Cap2(n) == IF n >= 2 THEN 2 ELSE n

\* the size a recording of scenario s grows to: one piece where recordings
\* appear complete
SizeLimit(s) == IF s.name = "arrivals" THEN 1 ELSE MaxSize


\* what a second stat() can see after a first one saw fsize[p]: the recorder
\* may have appended in between
Growth(p) ==
  {fsize[p]} \cup (IF scn.writing /\ fsize[p] < SizeLimit(scn) THEN {fsize[p] + 1} ELSE {})

\* the registry and its history as one value, threaded through a handler
Reg == [days |-> days, fragments |-> fragments, reg_calls |-> reg_calls,
        incr |-> incr, last_ret |-> last_ret, samples |-> samples]

\* whether the steps of add_file_to_database after the commit of the Day can
\* fail while the registry is reachable: where the environment has outages
SecondHalf == IF scn.max_dbflips > 0 THEN BOOLEAN ELSE {TRUE}

\* one call of add_file_to_database(p) after an is_file_ready(p) that sampled
\* size1 and size2, with its history; ok is whether the steps after the commit
\* of the Day succeed
register(st, p, size1, size2, ok, down) ==
  LET r == add_file_to_database(st.days, st.fragments, p, ok, down)
  IN [days |-> r.days, fragments |-> r.fragments,
      reg_calls |-> [st.reg_calls EXCEPT ![p] = Cap2(@ + 1)],
      incr |-> [st.incr EXCEPT ![p] = Cap2(@ + (IF r.incremented THEN 1 ELSE 0))],
      last_ret |-> [st.last_ret EXCEPT ![p] = r.ret],
      samples |-> [st.samples EXCEPT ![p] = <<size1, size2>>]]

SetReg(st) ==
  /\ days' = st.days
  /\ fragments' = st.fragments
  /\ reg_calls' = st.reg_calls
  /\ incr' = st.incr
  /\ last_ret' = st.last_ret
  /\ samples' = st.samples

\* FileWatcher.scan_existing_files from the i-th file of the scan on: every
\* file that exists and passes is_file_ready (second samples g) is registered
\* (ok[p]: the steps after the commit of the Day succeed for p)
RECURSIVE scan_existing_files(_, _, _, _)
scan_existing_files(st, i, g, ok) ==
  IF i > Len(ScanOrder) THEN st
  ELSE LET p == ScanOrder[i]
           st1 == IF p \in scn.paths /\ is_file_ready(TRUE, fsize[p], g[p])
                  THEN register(st, p, fsize[p], g[p], ok[p], db_down)
                  ELSE st
       IN scan_existing_files(st1, i + 1, g, ok)

\* the engine call made on the event-loop thread itself
engine_call_blocks_loop(pc) == pc = "executor"

\* whether a task at pc keeps the event-loop thread busy: transcribe_file
\* awaits run_in_executor, so a running engine call does not
engine_call_blocks(pc) == FALSE

\* the event-loop thread is free for a coroutine other than task t: the loop
\* is not between its two statements and no other task keeps the thread
LoopFreeFor(t) ==
  /\ tick_pc = "idle"
  /\ \A u \in 1..Len(tasks) : u # t => ~engine_call_blocks(tasks[u].pc)

\* the event-loop thread is free
MainFree == LoopFreeFor(0)

\* a task of process_audio_file(p).  calls counts its transcribe_file calls;
\* streak is how many calls in a row the engine fails from the last call on
\* (0: that call succeeded); during is the set of tasks whose engine call was
\* running in the executor when this task was created; found_again records
\* that the path was discovered once more after this task had ended early;
\* beside is the set of tasks that were between their registration and the
\* return of their engine call when this task's registration made a Fragment
NewTask(p, ts) ==
  [path |-> p, pc |-> "created", fid |-> 0, calls |-> 0, streak |-> 0,
   ended |-> "running",
   during |-> {u \in 1..Len(ts) : ts[u].pc = "executor"},
   found_again |-> FALSE,
   beside |-> {}]

\* the dispatch loop without the test of processing_tasks
RECURSIVE dispatch_unconditional(_, _, _, _)
dispatch_unconditional(ts, pt, files, i) ==
  IF i > Len(ScanOrder) THEN [tasks |-> ts, processing_tasks |-> pt]
  ELSE LET p == ScanOrder[i]
       IN IF p \in files
          THEN dispatch_unconditional(Append(ts, NewTask(p, ts)),
                                      [pt EXCEPT ![p] = Len(ts) + 1], files, i + 1)
          ELSE dispatch_unconditional(ts, pt, files, i + 1)

\* the dispatch loop leaving after the first task it creates
RECURSIVE dispatch_one(_, _, _, _)
dispatch_one(ts, pt, files, i) ==
  IF i > Len(ScanOrder) THEN [tasks |-> ts, processing_tasks |-> pt]
  ELSE LET p == ScanOrder[i]
       IN IF p \in files /\ pt[p] = 0
          THEN [tasks |-> Append(ts, NewTask(p, ts)),
                processing_tasks |-> [pt EXCEPT ![p] = Len(ts) + 1]]
          ELSE dispatch_one(ts, pt, files, i + 1)

\* the dispatch loop of processing_loop over the drained paths, from the i-th
\* on: a task for every path that has no entry in processing_tasks
RECURSIVE dispatch(_, _, _, _)
dispatch(ts, pt, files, i) ==
  IF i > Len(ScanOrder) THEN [tasks |-> ts, processing_tasks |-> pt]
  ELSE LET p == ScanOrder[i]
       IN IF p \in files /\ pt[p] = 0
          THEN dispatch(Append(ts, NewTask(p, ts)), [pt EXCEPT ![p] = Len(ts) + 1], files, i + 1)
          ELSE dispatch(ts, pt, files, i + 1)

\* processing_loop without the sweep
sweep_none(ts, pt) == pt

\* the sweep of processing_loop: entries whose task is done are deleted
sweep(ts, pt) ==
  [p \in WavPaths |-> IF pt[p] # 0 /\ ts[pt[p]].pc = "done" THEN 0 ELSE pt[p]]

\* ------------------------------------------------------------------ Init

\* the state after FileWatcher() and WhisperProcessor() are constructed, on an
\* empty registry and an empty recordings directory
Init ==
  /\ is_running = FALSE
  /\ observer = "none"
  /\ pending_files = {}
  /\ processed_files = {}
  /\ processing_tasks = [p \in WavPaths |-> 0]
  /\ tasks = <<>>
  /\ loops = 0
  /\ tick_pc = "idle"
  /\ files_to_process = {}
  /\ last_sleep = 0
  /\ stop_pc = "idle"
  /\ stop_await = {}
  /\ obs_pc = "idle"
  /\ obs_path = P1
  /\ event = NoEvent
  /\ model_loaded = FALSE
  /\ is_initialized = FALSE
  /\ days = <<>>
  /\ fragments = <<>>
  /\ db_down = FALSE
  /\ scn \in Scenarios
  /\ cfg \in scn.configs
  /\ \E n \in 0..MaxSendRetries, v \in BOOLEAN :
       /\ scn.name \notin {"sender", "pi"} => (n = MaxSendRetries /\ v)
       /\ scn.name = "pi" => n = 1
       /\ sender = [max_retries |-> n, verification_enabled |-> v,
                    sent_files |-> {},
                    cache |-> {},
                    local |-> [f \in LocalFiles |->
                                IF scn.name = "sender" /\ f = SentFile
                                THEN "new" ELSE "absent"],
                    confirmed |-> {},
                    found |-> [files |-> {}, sent_files |-> {}],
                    last |-> [file |-> <<>>, ret |-> FALSE, attempts |-> 0,
                              commands |-> 0,
                              commands_failed |-> FALSE]]
  /\ fsize = [p \in WavPaths |-> IF scn.writing \/ p \notin scn.paths THEN 0 ELSE 1]
  /\ n_events = 0
  /\ n_restarts = 0
  /\ n_stops = 0
  /\ n_dbflips = 0
  /\ reg_calls = [p \in WavPaths |-> 0]
  /\ incr = [p \in WavPaths |-> 0]
  /\ last_ret = [p \in WavPaths |-> 0]
  /\ samples = [p \in WavPaths |-> <<0, 0>>]
  /\ last_call = [cause |-> "none", overran |-> FALSE, ret |-> "none"]
  /\ n_loads = 0
  /\ tick_hist = [launched |-> 0, skipped |-> 0]

\* ----------------------------------------------------------- environment

\* the recorder appends to a file
GrowFile(p) ==
  /\ scn.writing
  /\ p \in scn.paths
  /\ fsize[p] < SizeLimit(scn)
  /\ fsize' = [fsize EXCEPT ![p] = @ + 1]
  /\ UNCHANGED <<watcher_vars, whisper_vars, registry_vars, db_down,
                 env_vars, budget_vars, hist_vars>>

DbGoesDown ==
  /\ ~db_down
  /\ n_dbflips < scn.max_dbflips
  /\ db_down' = TRUE
  /\ n_dbflips' = n_dbflips + 1
  /\ UNCHANGED <<watcher_vars, whisper_vars, registry_vars, fs_vars, env_vars,
                 n_events, n_restarts, n_stops, hist_vars>>

DbComesUp ==
  /\ db_down
  /\ db_down' = FALSE
  /\ UNCHANGED <<watcher_vars, whisper_vars, registry_vars, fs_vars, env_vars,
                 budget_vars, hist_vars>>

\* the process dies and is started again: a new FileWatcher and a new
\* WhisperProcessor on the same registry and the same directory
Restart ==
  /\ n_restarts < scn.max_restarts
  /\ n_restarts' = n_restarts + 1
  /\ is_running' = FALSE
  /\ observer' = "none"
  /\ pending_files' = {}
  /\ processed_files' = {}
  /\ processing_tasks' = [p \in WavPaths |-> 0]
  /\ tasks' = <<>>
  /\ loops' = 0
  /\ tick_pc' = "idle"
  /\ files_to_process' = {}
  /\ last_sleep' = 0
  /\ stop_pc' = "idle"
  /\ stop_await' = {}
  /\ obs_pc' = "idle"
  /\ obs_path' = P1
  /\ event' = NoEvent
  /\ model_loaded' = FALSE
  /\ is_initialized' = FALSE
  /\ tick_hist' = [launched |-> 0, skipped |-> 0]
  /\ n_loads' = 0
  /\ UNCHANGED <<registry_vars, db_down, fs_vars, env_vars, n_events, n_stops,
                 n_dbflips, reg_calls, incr, last_ret, samples, last_call>>

\* ------------------------------------------------------- observer thread

\* The handler is called with event e: on_created / on_moved up to the
\* membership test of add_pending_file
HandleEvent(e) ==
  /\ observer = "running"
  /\ obs_pc = "idle"
  /\ n_events < scn.max_events
  /\ scn.name = "backlog" => e.src_path = ScanOrder[n_events + 1]
  /\ scn.name = "arrivals" =>
       /\ e.src_path = (IF n_events = 0 THEN P1 ELSE P4)
       /\ fsize[e.src_path] > 0
  /\ n_events' = n_events + 1
  /\ LET a == handler_dispatch(e)
         added == a # Null /\ a[1] \notin processed_files
     IN /\ IF added
           THEN obs_pc' = "checked" /\ obs_path' = a[1] /\ event' = e
           ELSE UNCHANGED <<obs_pc, obs_path, event>>
        /\ tasks' = [t \in 1..Len(tasks) |->
                      IF /\ added
                         /\ tasks[t].path = a[1]
                         /\ tasks[t].ended \in {"not_ready", "no_fragment"}
                         /\ \A u \in 1..Len(tasks) :
                              tasks[u].path = a[1] => tasks[u].pc = "done"
                      THEN [tasks[t] EXCEPT !.found_again = TRUE]
                      ELSE tasks[t]]
  /\ UNCHANGED <<is_running, observer, pending_files, processed_files,
                 processing_tasks, loops, tick_pc, files_to_process,
                 last_sleep, stop_pc, stop_await, whisper_vars, registry_vars,
                 db_down, fs_vars, env_vars, n_restarts, n_stops, n_dbflips, hist_vars>>

\* add_pending_file: self.pending_files.add(file_path)
ObserverAdd ==
  /\ obs_pc = "checked"
  /\ pending_files' = pending_files \cup {obs_path}
  /\ obs_pc' = "idle"
  /\ event' = NoEvent
  /\ UNCHANGED <<is_running, observer, processed_files, processing_tasks, tasks,
                 loops, tick_pc, files_to_process, last_sleep, stop_pc,
                 stop_await, obs_path, whisper_vars, registry_vars, db_down,
                 fs_vars, env_vars, budget_vars, hist_vars>>

\* ------------------------------------------------------ start and stop

\* setup_file_monitoring without the test of the directory: the observer is
\* made and cannot be started on a directory that does not exist
setup_file_monitoring_unguarded(root, obs) ==
  IF root THEN [observer |-> "running", returned |-> TRUE]
  ELSE [observer |-> "stopped", returned |-> FALSE]

\* FileWatcher.setup_file_monitoring: self.observer afterwards (none, running
\* or stopped) and whether the call returned
setup_file_monitoring(root, obs) ==
  IF ~root THEN [observer |-> obs, returned |-> TRUE]
  ELSE [observer |-> "running", returned |-> TRUE]

\* FileWatcher.stop, the observer's part: self.observer afterwards
stop_observer(obs) == IF obs # "none" THEN "stopped" ELSE obs

\* FileWatcher.start: the scan, setup_file_monitoring and the new loop task.
\* The callers await stop() before they call start() again.
Start ==
  /\ MainFree
  /\ stop_pc = "idle"
  /\ ~is_running
  /\ is_running' = TRUE
  /\ \E g \in [WavPaths -> 0..MaxSize], ok \in [WavPaths -> SecondHalf] :
       /\ \A p \in WavPaths : g[p] \in Growth(p)
       /\ \A p \in WavPaths \ scn.paths : ok[p]
       /\ fsize' = g
       /\ SetReg(IF scn.root THEN scan_existing_files(Reg, 1, g, ok) ELSE Reg)
  /\ LET m == setup_file_monitoring(scn.root, observer)
     IN /\ observer' = m.observer
        /\ loops' = IF m.returned THEN loops + 1 ELSE loops
  /\ UNCHANGED <<pending_files, processed_files, processing_tasks, tasks,
                 tick_pc, files_to_process, last_sleep, stop_pc, stop_await,
                 obs_pc, obs_path, event, whisper_vars, db_down, env_vars,
                 budget_vars, last_call, n_loads, tick_hist>>

\* stop() returning without the gather
gathered_tasks_none(pt) == {}

\* the tasks stop() awaits: asyncio.gather(*self.processing_tasks.values())
gathered_tasks(pt) == {pt[p] : p \in WavPaths} \ {0}

\* FileWatcher.stop up to its await: the observer thread is joined (it ends
\* the handler it is in), then gather over the tasks of processing_tasks
Stop ==
  /\ MainFree
  /\ stop_pc = "idle"
  /\ n_stops < scn.max_stops
  /\ n_stops' = n_stops + 1
  /\ is_running' = FALSE
  /\ observer' = stop_observer(observer)
  /\ obs_pc' = "idle"
  /\ event' = NoEvent
  /\ pending_files' = IF obs_pc = "checked" THEN pending_files \cup {obs_path}
                      ELSE pending_files
  /\ LET awaited == gathered_tasks(processing_tasks)
     IN IF awaited # {}
        THEN stop_pc' = "gather" /\ stop_await' = awaited
        ELSE UNCHANGED <<stop_pc, stop_await>>
  /\ UNCHANGED <<processed_files, processing_tasks, tasks, loops, tick_pc,
                 files_to_process, last_sleep, obs_path, whisper_vars,
                 registry_vars, db_down, fs_vars, env_vars, n_events, n_restarts,
                 n_dbflips, hist_vars>>

\* stop() returns when every gathered task is done
StopReturn ==
  /\ MainFree
  /\ stop_pc = "gather"
  /\ \A t \in stop_await : tasks[t].pc = "done"
  /\ stop_pc' = "idle"
  /\ stop_await' = {}
  /\ UNCHANGED <<is_running, observer, pending_files, processed_files,
                 processing_tasks, tasks, loops, tick_pc, files_to_process,
                 last_sleep, obs_pc, obs_path, event, whisper_vars, registry_vars,
                 db_down, fs_vars, env_vars, budget_vars, hist_vars>>

\* ------------------------------------------------------ processing_loop

\* processing_loop going round whatever is_running says
loop_continues_always(running) == TRUE

\* the test of processing_loop when its sleep has ended: while self.is_running
loop_continues(running) == running

\* a loop coroutine wakes up and finds is_running false: it returns
LoopExit ==
  /\ MainFree
  /\ loops > 0
  /\ ~loop_continues(is_running)
  /\ loops' = loops - 1
  /\ UNCHANGED <<is_running, observer, pending_files, processed_files,
                 processing_tasks, tasks, tick_pc, files_to_process, last_sleep,
                 stop_pc, stop_await, obs_pc, obs_path, event, whisper_vars,
                 registry_vars, db_down, fs_vars, env_vars, budget_vars, hist_vars>>

\* files_to_process = list(self.pending_files)
TickSnapshot ==
  /\ MainFree
  /\ loops > 0
  /\ loop_continues(is_running)
  /\ files_to_process' = pending_files
  /\ tick_pc' = "drained"
  /\ UNCHANGED <<is_running, observer, pending_files, processed_files,
                 processing_tasks, tasks, loops, last_sleep, stop_pc, stop_await,
                 obs_pc, obs_path, event, whisper_vars, registry_vars, db_down,
                 fs_vars, env_vars, budget_vars, hist_vars>>

\* the sleep at the end of a tick of processing_loop with n_tasks in flight
tick_sleep(n_tasks) == TickInterval

\* self.pending_files.clear(), the dispatch loop, the sweep and the sleep
TickDispatch ==
  /\ tick_pc = "drained"
  /\ pending_files' = {}
  /\ LET d == dispatch(tasks, processing_tasks, files_to_process, 1)
         swept == sweep(d.tasks, d.processing_tasks)
     IN /\ tasks' = d.tasks
        /\ processing_tasks' = swept
        /\ last_sleep' = tick_sleep(Cardinality({p \in WavPaths : swept[p] # 0}))
        /\ tick_hist' =
             [launched |-> Len(d.tasks) - Len(tasks),
              skipped |-> Cardinality({p \in files_to_process :
                                         /\ processing_tasks[p] # 0
                                         /\ tasks[processing_tasks[p]].pc # "done"})]
  /\ files_to_process' = {}
  /\ tick_pc' = "idle"
  /\ UNCHANGED <<is_running, observer, processed_files, loops, stop_pc,
                 stop_await, obs_pc, obs_path, event, whisper_vars, registry_vars,
                 db_down, fs_vars, env_vars, budget_vars, reg_calls, incr,
                 last_ret, samples, last_call, n_loads>>

\* --------------------------------------------------- process_audio_file

\* initialize without the assignment of is_initialized after the load
initialize_unflagged(c, ml, init) ==
  IF init \/ c.mock_whisper
  THEN [model_loaded |-> ml, is_initialized |-> init, load_called |-> FALSE]
  ELSE IF c.whisper = "missing"
  THEN [model_loaded |-> ml, is_initialized |-> init, load_called |-> FALSE]
  ELSE IF c.whisper = "loads"
  THEN [model_loaded |-> TRUE, is_initialized |-> init, load_called |-> TRUE]
  ELSE [model_loaded |-> FALSE, is_initialized |-> init, load_called |-> TRUE]

\* WhisperProcessor.initialize: the fields after the call and whether
\* whisper.load_model was called
initialize(c, ml, init) ==
  IF init \/ c.mock_whisper
  THEN [model_loaded |-> ml, is_initialized |-> init, load_called |-> FALSE]
  ELSE IF c.whisper = "missing"
  THEN [model_loaded |-> ml, is_initialized |-> init, load_called |-> FALSE]
  ELSE IF c.whisper = "loads"
  THEN [model_loaded |-> TRUE, is_initialized |-> TRUE, load_called |-> TRUE]
  ELSE [model_loaded |-> FALSE, is_initialized |-> init, load_called |-> TRUE]

\* transcribe_file going to the engine whether there is a model or not
transcribe_file_begin_no_fallback(c, ml, init) ==
  IF c.mock_whisper
  THEN [pc |-> "mock", model_loaded |-> ml, is_initialized |-> init, load_called |-> FALSE]
  ELSE LET w == IF ~init THEN initialize(c, ml, init)
                ELSE [model_loaded |-> ml, is_initialized |-> init, load_called |-> FALSE]
       IN [pc |-> "executor",
           model_loaded |-> w.model_loaded,
           is_initialized |-> w.is_initialized,
           load_called |-> w.load_called]

\* WhisperProcessor.transcribe_file up to its first await: the mock's sleep
\* or the executor's future
transcribe_file_begin(c, ml, init) ==
  IF c.mock_whisper
  THEN [pc |-> "mock", model_loaded |-> ml, is_initialized |-> init, load_called |-> FALSE]
  ELSE LET w == IF ~init THEN initialize(c, ml, init)
                ELSE [model_loaded |-> ml, is_initialized |-> init, load_called |-> FALSE]
       IN [pc |-> IF w.model_loaded THEN "executor" ELSE "mock",
           model_loaded |-> w.model_loaded,
           is_initialized |-> w.is_initialized,
           load_called |-> w.load_called]

\* process_audio_file calling transcribe_fragment whatever
\* add_file_to_database returned
Proceed_unregistered(t, size1, size2, ok) ==
  LET p == tasks[t].path
      st == register(Reg, p, size1, size2, ok, db_down)
      fid == st.last_ret[p]
      w == transcribe_file_begin(cfg, model_loaded, is_initialized)
  IN /\ SetReg(st)
     /\ tasks' = [tasks EXCEPT ![t].pc = w.pc, ![t].fid = fid,
                               ![t].calls = @ + 1,
                               ![t].beside =
                                 {u \in 1..Len(tasks) :
                                    /\ Len(st.fragments) > Len(fragments)
                                    /\ tasks[u].pc \in {"mock", "executor"}}]
     /\ model_loaded' = w.model_loaded
     /\ is_initialized' = w.is_initialized
     /\ n_loads' = Cap2(n_loads + (IF w.load_called THEN 1 ELSE 0))

\* process_audio_file once is_file_ready gave True: add_file_to_database,
\* then transcribe_fragment up to the await of transcribe_file
Proceed(t, size1, size2, ok) ==
  LET p == tasks[t].path
      st == register(Reg, p, size1, size2, ok, db_down)
      fid == st.last_ret[p]
      w == transcribe_file_begin(cfg, model_loaded, is_initialized)
  IN /\ SetReg(st)
     /\ IF fid = 0
        THEN /\ tasks' = [tasks EXCEPT ![t].pc = "done", ![t].ended = "no_fragment"]
             /\ UNCHANGED <<whisper_vars, n_loads>>
        ELSE /\ tasks' = [tasks EXCEPT ![t].pc = w.pc, ![t].fid = fid,
                                       ![t].calls = @ + 1,
                                       ![t].beside =
                                         {u \in 1..Len(tasks) :
                                            /\ Len(st.fragments) > Len(fragments)
                                            /\ tasks[u].pc \in {"mock", "executor"}}]
             /\ model_loaded' = w.model_loaded
             /\ is_initialized' = w.is_initialized
             /\ n_loads' = Cap2(n_loads + (IF w.load_called THEN 1 ELSE 0))

\* the first is_file_ready of process_audio_file
TaskStart(t) ==
  /\ LoopFreeFor(t)
  /\ tasks[t].pc = "created"
  /\ LET p == tasks[t].path
     IN \E size2 \in Growth(p), ok \in SecondHalf :
          /\ fsize' = [fsize EXCEPT ![p] = size2]
          /\ ~is_file_ready(TRUE, fsize[p], size2) => ok
          /\ IF is_file_ready(TRUE, fsize[p], size2)
             THEN Proceed(t, fsize[p], size2, ok)
             ELSE /\ tasks' = [tasks EXCEPT ![t].pc = "sleep2"]
                  /\ UNCHANGED <<whisper_vars, registry_vars, reg_hist, n_loads>>
  /\ UNCHANGED <<is_running, observer, pending_files, processed_files,
                 processing_tasks, loops, tick_pc, files_to_process, last_sleep,
                 stop_pc, stop_await, obs_pc, obs_path, event, db_down, env_vars,
                 budget_vars, last_call, tick_hist>>

\* the second is_file_ready, after asyncio.sleep(2)
TaskRecheck(t) ==
  /\ LoopFreeFor(t)
  /\ tasks[t].pc = "sleep2"
  /\ LET p == tasks[t].path
     IN \E size2 \in Growth(p), ok \in SecondHalf :
          /\ fsize' = [fsize EXCEPT ![p] = size2]
          /\ ~is_file_ready(TRUE, fsize[p], size2) => ok
          /\ IF is_file_ready(TRUE, fsize[p], size2)
             THEN Proceed(t, fsize[p], size2, ok)
             ELSE /\ tasks' = [tasks EXCEPT ![t].pc = "done", ![t].ended = "not_ready"]
                  /\ UNCHANGED <<whisper_vars, registry_vars, reg_hist, n_loads>>
  /\ UNCHANGED <<is_running, observer, pending_files, processed_files,
                 processing_tasks, loops, tick_pc, files_to_process, last_sleep,
                 stop_pc, stop_await, obs_pc, obs_path, event, db_down, env_vars,
                 budget_vars, last_call, tick_hist>>

\* transcribe_fragment from the return of transcribe_file on, and the rest of
\* process_audio_file.  result is Null for None.  With the registry down the
\* success branch raises; the except branch opens its own session, which
\* works (recovered) or raises too, and then process_audio_file catches it.
Finish(t, result, streak) ==
  LET p == tasks[t].path
      fid == tasks[t].fid
  IN
  IF result = Null
  THEN /\ tasks' = [tasks EXCEPT ![t].pc = "done", ![t].ended = "processed",
                                  ![t].streak = streak]
       /\ processed_files' = processed_files \cup {p}
       /\ UNCHANGED <<registry_vars, db_down>>
  ELSE IF ~db_down
  THEN /\ LET c == commit_result(days, fragments, fid, result[1])
          IN days' = c.days /\ fragments' = c.fragments
       /\ tasks' = [tasks EXCEPT ![t].pc = "done", ![t].ended = "processed",
                                  ![t].streak = streak]
       /\ processed_files' = processed_files \cup {p}
       /\ UNCHANGED db_down
  ELSE \E recovered \in BOOLEAN :
         IF recovered
         THEN /\ db_down' = FALSE
              /\ fragments' = record_error(fragments, fid, "registry error")
              /\ tasks' = [tasks EXCEPT ![t].pc = "done", ![t].ended = "processed",
                                  ![t].streak = streak]
              /\ processed_files' = processed_files \cup {p}
              /\ UNCHANGED days
         ELSE /\ tasks' = [tasks EXCEPT ![t].pc = "done", ![t].ended = "exception",
                                         ![t].streak = streak]
              /\ UNCHANGED <<registry_vars, db_down, processed_files>>

\* _mock_transcribe returns after asyncio.sleep(1)
TaskMockReturn(t) ==
  /\ LoopFreeFor(t)
  /\ tasks[t].pc = "mock"
  /\ Finish(t, Some(mock_transcribe(tasks[t].path)), 0)
  /\ UNCHANGED <<is_running, observer, pending_files, processing_tasks, loops,
                 tick_pc, files_to_process, last_sleep, stop_pc, stop_await,
                 obs_pc, obs_path, event, whisper_vars, fs_vars, env_vars, budget_vars,
                 hist_vars>>

\* what transcribe_file returns for an engine-mode call: _transcribe_sync runs
\* in an executor thread, where signal.signal raises ValueError before
\* model.transcribe is called; without the alarm the call runs to its end,
\* however long; every exception becomes None
transcribe_file_return(alarm, raised, result) ==
  IF alarm THEN Null
  ELSE IF raised THEN Null
  ELSE Some(result)

\* the executor's future completes.  The engine fails this call and the
\* streak - 1 calls after it (streak = 0: it succeeds with result), and the
\* call took longer than the configured timeout or not.  Where the alarm is
\* installed the call fails at once, every time.
TaskExecutorReturn(t) ==
  /\ LoopFreeFor(t)
  /\ tasks[t].pc = "executor"
  /\ \E streak \in 0..MaxRetries, result \in EngineResults, overran \in BOOLEAN :
       LET raised == streak > 0
           r == transcribe_file_return(cfg.alarm, raised, result)
       IN /\ cfg.alarm => (streak = MaxRetries /\ ~overran)
          /\ raised => result = CHOOSE x \in EngineResults : TRUE
          /\ last_call' = [cause |-> IF cfg.alarm THEN "signal_error"
                                     ELSE IF raised THEN "exception"
                                     ELSE "ok",
                           overran |-> overran,
                           ret |-> IF r = Null THEN "None" ELSE "result"]
          /\ Finish(t, r, streak)
  /\ UNCHANGED <<is_running, observer, pending_files, processing_tasks, loops,
                 tick_pc, files_to_process, last_sleep, stop_pc, stop_await,
                 obs_pc, obs_path, event, whisper_vars, fs_vars, env_vars, budget_vars,
                 reg_calls, incr, last_ret, samples, n_loads, tick_hist>>

\* ------------------------------------------------------------ FileSender

\* FileSender.send_file(local_path), with what the PC does at each attempt
SendFile(local_path) ==
  /\ scn.name \in {"sender", "pi"}
  /\ IF local_path \in LocalFiles THEN sender.local[local_path] # "absent"
     ELSE scn.name = "sender"
  /\ \E outcomes \in [1..sender.max_retries -> Outcomes] :
       LET r == send_file(sender.sent_files, local_path, outcomes, 0,
                          sender.max_retries, sender.verification_enabled)
           failing == {"mkdir_fails", "scp_fails"} \cup
                      (IF sender.verification_enabled THEN {"stat_fails"} ELSE {})
           copied == \E i \in 1..r.attempts :
                       /\ local_path \in LocalFiles
                       /\ outcomes[i] \notin {"mkdir_fails", "scp_fails"}
                       /\ sender.verification_enabled => outcomes[i] = "ok"
       IN sender' = [sender EXCEPT
                       !.sent_files = r.sent_files,
                       !.cache = IF r.ret THEN r.sent_files ELSE @,
                       !.confirmed = IF copied THEN @ \cup {local_path} ELSE @,
                       !.last = [file |-> local_path, ret |-> r.ret,
                                 attempts |-> r.attempts,
                                 commands |->
                                   commands_run(local_path, outcomes, r.attempts,
                                                sender.verification_enabled),
                                 commands_failed |->
                                   \A i \in 1..sender.max_retries :
                                     outcomes[i] \in failing]]
  /\ UNCHANGED <<watcher_vars, whisper_vars, registry_vars, db_down, fs_vars,
                 cfg, scn, budget_vars, hist_vars>>

\* the recorder of the Pi closes a new recording; the names of recordings are
\* timestamps, so none is recorded a second time
SenderRecord(f) ==
  /\ scn.name = "pi"
  /\ sender.local[f] = "absent"
  /\ f \notin sender.confirmed
  /\ sender.last.file # f
  /\ sender' = [sender EXCEPT !.local[f] = "new"]
  /\ UNCHANGED <<watcher_vars, whisper_vars, registry_vars, db_down, fs_vars,
                 cfg, scn, budget_vars, hist_vars>>

\* time passes: the mtime of a recording falls behind the retention cutoff
SenderAge(f) ==
  /\ scn.name = "pi"
  /\ sender.local[f] = "new"
  /\ sender' = [sender EXCEPT !.local[f] = "old"]
  /\ UNCHANGED <<watcher_vars, whisper_vars, registry_vars, db_down, fs_vars,
                 cfg, scn, budget_vars, hist_vars>>

\* FileSender.find_new_files(), with the recordings _is_file_ready accepts
FindNewFiles ==
  /\ scn.name = "pi"
  /\ \E ready \in SUBSET LocalFiles :
       sender' = [sender EXCEPT
                    !.found = [files |-> find_new_files(sender.local,
                                                        sender.sent_files, ready),
                               sent_files |-> sender.sent_files]]
  /\ UNCHANGED <<watcher_vars, whisper_vars, registry_vars, db_down, fs_vars,
                 cfg, scn, budget_vars, hist_vars>>

\* FileSender.cleanup_old_files(), with the recordings whose unlink succeeds;
\* the cache is saved when something was removed
CleanupOldFiles ==
  /\ scn.name = "pi"
  /\ \E unlinked \in SUBSET LocalFiles :
       LET r == cleanup_old_files(sender.local, sender.sent_files, unlinked)
       IN sender' = [sender EXCEPT
                       !.local = r.local,
                       !.sent_files = r.sent_files,
                       !.cache = IF r.removed_count > 0 THEN r.sent_files ELSE @]
  /\ UNCHANGED <<watcher_vars, whisper_vars, registry_vars, db_down, fs_vars,
                 cfg, scn, budget_vars, hist_vars>>

\* ----------------------------------------------- WhisperProcessor calls

\* WhisperProcessor.initialize called directly
Initialize ==
  /\ MainFree
  /\ LET w == initialize(cfg, model_loaded, is_initialized)
     IN /\ model_loaded' = w.model_loaded
        /\ is_initialized' = w.is_initialized
        /\ n_loads' = Cap2(n_loads + (IF w.load_called THEN 1 ELSE 0))
  /\ UNCHANGED <<watcher_vars, registry_vars, db_down, fs_vars, env_vars,
                 budget_vars, reg_calls, incr, last_ret, samples, last_call,
                 tick_hist>>

\* WhisperProcessor.cleanup: the model is dropped and is_initialized cleared
Cleanup ==
  /\ MainFree
  /\ model_loaded' = FALSE
  /\ is_initialized' = FALSE
  /\ n_loads' = 0
  /\ UNCHANGED <<watcher_vars, registry_vars, db_down, fs_vars, env_vars,
                 budget_vars, reg_calls, incr, last_ret, samples, last_call,
                 tick_hist>>

\* ------------------------------------------------------------------ Next

Next ==
  \/ \E p \in WavPaths : GrowFile(p)
  \/ DbGoesDown
  \/ DbComesUp
  \/ Restart
  \/ \E e \in EventsOf(scn) : HandleEvent(e)
  \/ ObserverAdd
  \/ Start
  \/ Stop
  \/ StopReturn
  \/ LoopExit
  \/ TickSnapshot
  \/ TickDispatch
  \/ \E t \in 1..Len(tasks) : TaskStart(t)
  \/ \E t \in 1..Len(tasks) : TaskRecheck(t)
  \/ \E t \in 1..Len(tasks) : TaskMockReturn(t)
  \/ \E t \in 1..Len(tasks) : TaskExecutorReturn(t)
  \/ Initialize
  \/ Cleanup
  \/ \E f \in SenderFiles : SendFile(f)
  \/ \E f \in LocalFiles : SenderRecord(f)
  \/ \E f \in LocalFiles : SenderAge(f)
  \/ FindNewFiles
  \/ CleanupOldFiles

Spec == Init /\ [][Next]_vars

\* The scheduling the run time gives.  The observer thread finishes the call
\* it is in.  The event loop runs every coroutine whose await has completed:
\* the loop's sleep ends, and a task whose sleep or future has completed is
\* run although the loop's tick takes the thread again and again (the ready
\* queue of asyncio is first-in first-out).  _mock_transcribe's sleep ends;
\* the executor's engine call is not required to end.
Fairness ==
  /\ WF_vars(ObserverAdd)
  /\ WF_vars(TickSnapshot)
  /\ WF_vars(TickDispatch)
  /\ WF_vars(LoopExit)
  /\ WF_vars(StopReturn)
  /\ SF_vars(\E t \in 1..Len(tasks) : TaskStart(t))
  /\ SF_vars(\E t \in 1..Len(tasks) : TaskRecheck(t))
  /\ SF_vars(\E t \in 1..Len(tasks) : TaskMockReturn(t))

\* the scenarios over which progress is checked: those of at most two
\* recordings that are there, or are being written, when the watcher starts
LiveInit == Init /\ Cardinality(scn.paths) <= 2 /\ scn.name \notin {"arrivals", "sender"}

LiveSpec == LiveInit /\ [][Next]_vars /\ Fairness

\* ---------------------------------------------------------------- claims

\* the Fragment rows with file_path = p
FragsOf(p) == {i \in 1..Len(fragments) : fragments[i].file_path = p}

\* the paths that have an entry in processing_tasks
InFlight == {p \in WavPaths : processing_tasks[p] # 0}

\* the tasks that have not finished
Unfinished == {t \in 1..Len(tasks) : tasks[t].pc # "done"}

\* the sum of duration_seconds over the transcribed Fragments 1..n of Day d
RECURSIVE TranscribedDuration(_, _)
TranscribedDuration(d, n) ==
  IF n = 0 THEN 0
  ELSE TranscribedDuration(d, n - 1) +
       (IF /\ fragments[n].day_id = d
           /\ fragments[n].transcribed
           /\ fragments[n].duration_seconds # Null
        THEN fragments[n].duration_seconds[1] ELSE 0)

\* C1: idempotent registration.  Whatever number of add_file_to_database calls
\* a path has had (scan, dispatched tasks, across restarts), the registry holds
\* at most one Fragment for it, the Day counter was incremented once per
\* Fragment of the path, and a call that returned a Fragment returned that one.
C1_IdempotentRegistration ==
  \A p \in WavPaths :
    /\ Cardinality(FragsOf(p)) <= 1
    /\ incr[p] = Cardinality(FragsOf(p))
    /\ last_ret[p] # 0 => FragsOf(p) = {last_ret[p]}

\* two calls for P1 with the registry up: one Fragment, one increment, and the
\* second call returned the existing Fragment
C1_Witness ==
  /\ scn.name = "steady"
  /\ reg_calls[P1] = 2
  /\ incr[P1] = 1
  /\ FragsOf(P1) = {last_ret[P1]}
  /\ days[fragments[last_ret[P1]].day_id].total_fragments >= 1

\* C2: retry bound.  A task whose engine fails on every call ends after
\* exactly MaxRetries calls with transcribed = false, retry_count = MaxRetries
\* and an error text.
C2_RetryBound ==
  \A t \in 1..Len(tasks) :
    (/\ tasks[t].pc = "done"
     /\ tasks[t].ended = "processed"
     /\ tasks[t].streak = MaxRetries
     /\ n_dbflips = 0)
    => /\ tasks[t].calls = MaxRetries
       /\ ~fragments[tasks[t].fid].transcribed
       /\ fragments[tasks[t].fid].retry_count = MaxRetries
       /\ fragments[tasks[t].fid].processing_error # Null

\* C3: recovery from a transient failure.  A task whose engine fails k calls
\* in a row, 0 < k < MaxRetries, and then succeeds ends after k + 1 calls with
\* the Fragment transcribed and holding a text.
C3_TransientRecovery ==
  \A t \in 1..Len(tasks) :
    (/\ tasks[t].pc = "done"
     /\ tasks[t].ended = "processed"
     /\ tasks[t].streak > 0
     /\ tasks[t].streak < MaxRetries
     /\ n_dbflips = 0)
    => /\ tasks[t].calls = tasks[t].streak + 1
       /\ fragments[tasks[t].fid].transcribed
       /\ fragments[tasks[t].fid].transcript_text # Null

\* C4: duration conservation.  Every Day's total_duration_seconds is the sum
\* of the durations of its transcribed Fragments.
C4_DurationConservation ==
  \A d \in 1..Len(days) :
    days[d].total_duration_seconds = TranscribedDuration(d, Len(fragments))

\* C5: readiness gate.  Every add_file_to_database call on a path followed an
\* is_file_ready on that path whose two samples were equal and not zero, and
\* no Fragment exists for a path without such a call.
C5_ReadinessGate ==
  \A p \in WavPaths :
    /\ reg_calls[p] > 0 => (samples[p][1] = samples[p][2] /\ samples[p][1] > 0)
    /\ FragsOf(p) # {} => reg_calls[p] > 0

\* a task found the file changing or empty twice and ended, and the path has
\* no Fragment
C5_Witness ==
  \E t \in 1..Len(tasks) :
    /\ tasks[t].ended = "not_ready"
    /\ FragsOf(tasks[t].path) = {}
    /\ reg_calls[tasks[t].path] = 0
    /\ fsize[tasks[t].path] > 0

\* C6: in-flight uniqueness.  No two unfinished tasks have the same path, and
\* every unfinished task is the one processing_tasks records for its path.
C6_InFlightUnique ==
  /\ \A t, u \in Unfinished : tasks[t].path = tasks[u].path => t = u
  /\ \A t \in Unfinished : processing_tasks[tasks[t].path] = t

\* a tick drained a path whose task was still running and launched nothing
C6_Witness ==
  /\ tick_hist.skipped > 0
  /\ tick_hist.launched = 0
  /\ Cardinality(Unfinished) = 1

\* C7: dispatch on tick.  The second half of a tick empties pending_files and
\* launches exactly one task, not yet started, for every drained path without
\* an entry in processing_tasks; with an empty map the number of in-flight
\* tasks afterwards is the number of drained paths.
C7_DispatchOnTick ==
  [][ (tick_pc = "drained" /\ tick_pc' = "idle" /\ n_restarts' = n_restarts) =>
        LET fresh == {p \in files_to_process : processing_tasks[p] = 0}
        IN /\ pending_files' = {}
           /\ Len(tasks') = Len(tasks) + Cardinality(fresh)
           /\ \A p \in fresh :
                /\ processing_tasks'[p] > Len(tasks)
                /\ tasks'[processing_tasks'[p]].path = p
                /\ tasks'[processing_tasks'[p]].pc = "created"
           /\ \A p, q \in fresh :
                processing_tasks'[p] = processing_tasks'[q] => p = q
           /\ InFlight = {} =>
                Cardinality({p \in WavPaths : processing_tasks'[p] # 0}) =
                  Cardinality(files_to_process)
    ]_vars

\* one tick launched three tasks from three pending paths
C7_Witness ==
  /\ tick_hist.launched = 3
  /\ Cardinality(InFlight) = 3
  /\ pending_files = {}
  /\ Len(tasks) = 3
  /\ \A t \in 1..3 : tasks[t].pc = "created"

\* C8: a call that ran longer than the configured timeout gave a failure that
\* is neither a result nor the failure an engine exception gives.
C8_TimeoutDistinct ==
  last_call.overran =>
    last_call.ret \notin
      {"result", IF transcribe_file_return(FALSE, TRUE, MockResult) = Null
                 THEN "None" ELSE "result"}

\* C9: timeout isolation.  While the engine call of a task runs in the
\* executor, the loop can tick and every other unfinished task can take its
\* next step.
C9_TimeoutIsolation ==
  \A t \in 1..Len(tasks) :
    tasks[t].pc = "executor" =>
      /\ (tick_pc = "idle" /\ is_running /\ loops > 0) => ENABLED TickSnapshot
      /\ \A u \in 1..Len(tasks) :
           (u # t /\ tick_pc = "idle") =>
             /\ tasks[u].pc = "created" => ENABLED TaskStart(u)
             /\ tasks[u].pc = "sleep2" => ENABLED TaskRecheck(u)
             /\ tasks[u].pc = "mock" => ENABLED TaskMockReturn(u)
             /\ tasks[u].pc = "executor" => ENABLED TaskExecutorReturn(u)

\* a task launched while another task's engine call was running has been
\* registered and transcribed, and that call is still running
C9_Witness ==
  \E t, u \in 1..Len(tasks) :
    /\ t \in tasks[u].during
    /\ tasks[t].pc = "executor"
    /\ tasks[u].pc = "done"
    /\ tasks[u].ended = "processed"
    /\ fragments[tasks[u].fid].transcribed
    /\ tasks[u].path # tasks[t].path

\* C10: adaptive cadence.  The sleep after a tick is the short interval with
\* fewer than LoadThreshold tasks in flight and the long one otherwise.
C10_AdaptiveCadence ==
  last_sleep # 0 =>
    last_sleep = IF Cardinality(InFlight) < LoadThreshold
                 THEN TickInterval ELSE LongInterval

\* the Day rows of date d
DaysOf(d) == {i \in 1..Len(days) : days[i].date = d}

\* the registry holds one Day for 2024-01-15 with one Fragment counted, one
\* Fragment for P1 that starts at 14:30:00 and is transcribed, and P1 is in
\* processed_files
C11_Processed ==
  /\ \E d \in DaysOf("2024-01-15") :
       /\ DaysOf("2024-01-15") = {d}
       /\ days[d].total_fragments = 1
  /\ \E f \in FragsOf(P1) :
       /\ FragsOf(P1) = {f}
       /\ fragments[f].start_time = <<"2024-01-15", "14:30:00">>
       /\ fragments[f].transcribed
  /\ P1 \in processed_files

\* C11: end-to-end success in mock mode.  With one ready recording
\* 2024-01-15/2024-01-15_14-30-00.wav and nothing disturbing the process, the
\* path in pending_files leads to one Day with total_fragments = 1, one
\* Fragment of the path with start time 14:30:00 and transcribed, and the path
\* in processed_files.
C11_EndToEndMock ==
  (scn.name = "single" /\ P1 \in pending_files) ~> C11_Processed

\* the recording of the undisturbed run has been processed by a task
C11_Witness ==
  /\ scn.name = "single"
  /\ C11_Processed
  /\ \E t \in 1..Len(tasks) : tasks[t].path = P1 /\ tasks[t].ended = "processed"

\* C12: shutdown drain.  In the step in which stop() returns (at once, or from
\* its gather) every task created so far is done.
C12_ShutdownDrain ==
  [][ (\/ (n_stops' = n_stops + 1 /\ stop_pc' = "idle")
       \/ (stop_pc = "gather" /\ stop_pc' = "idle" /\ n_restarts' = n_restarts))
      => \A t \in 1..Len(tasks') : tasks'[t].pc = "done"
    ]_vars

\* stop() is waiting for a task that has registered its Fragment and has not
\* committed the result yet
C12_Witness ==
  /\ stop_pc = "gather"
  /\ ~is_running
  /\ \E t \in stop_await :
       /\ tasks[t].pc = "mock"
       /\ tasks[t].fid # 0
       /\ ~fragments[tasks[t].fid].transcribed

\* task t ends in this step after something failed: no Fragment, file not
\* ready, an exception that left process_audio_file, an engine failure, or an
\* error written to its Fragment
FailedEnd(t) ==
  /\ tasks[t].pc # "done"
  /\ tasks'[t].pc = "done"
  /\ \/ tasks'[t].ended # "processed"
     \/ tasks'[t].streak > 0
     \/ fragments'[tasks[t].fid].retry_count # fragments[tasks[t].fid].retry_count

\* C13: failure containment.  The step in which a task ends after a failure
\* changes no other task, leaves the loop, its flags and its sets as they
\* are, does not hold the event-loop thread, and changes no Day and no
\* Fragment other than the task's own (the Day of its own date, which its
\* registration may have committed before it failed, and its own Fragment).
C13_FailureContained ==
  [][ \A t \in 1..Len(tasks) :
        (n_restarts' = n_restarts /\ FailedEnd(t)) =>
          /\ Len(tasks') = Len(tasks)
          /\ \A u \in 1..Len(tasks) : u # t => tasks'[u] = tasks[u]
          /\ UNCHANGED <<is_running, loops, tick_pc, pending_files,
                         files_to_process, processing_tasks>>
          /\ ~engine_call_blocks(tasks'[t].pc)
          /\ Len(days') >= Len(days)
          /\ \A d \in 1..Len(days') :
                IF d <= Len(days) THEN days'[d] = days[d]
                ELSE Some(days'[d].date) = extract_date_from_path(tasks[t].path)
          /\ Len(fragments') = Len(fragments)
          /\ \A f \in 1..Len(fragments) :
                f # tasks[t].fid => fragments'[f] = fragments[f]
    ]_vars

\* a task ended by an exception while the task of another path, already
\* registered, is waiting for its result, and the loop is running
C13_Witness ==
  \E t, u \in 1..Len(tasks) :
    /\ tasks[t].ended = "exception"
    /\ tasks[u].path # tasks[t].path
    /\ tasks[u].pc = "mock"
    /\ tasks[u].fid # 0
    /\ is_running /\ loops > 0

\* C14: transcribe_fragment never raises.  No task is ended by an exception
\* that left transcribe_fragment, whatever the engine returned and whether the
\* registry could be reached or not.
C14_NeverRaises ==
  \A t \in 1..Len(tasks) :
    tasks[t].fid # 0 => tasks[t].ended # "exception"

\* the Fragment rows of Day d
FragmentsOfDay(d) == {f \in 1..Len(fragments) : fragments[f].day_id = d}

\* C15: fragment-count consistency.  In every registry state, the states left
\* by a registration that failed after the Day was committed included, every
\* Day's total_fragments is the number of Fragments that refer to it.
C15_FragmentCount ==
  \A d \in 1..Len(days) :
    days[d].total_fragments = Cardinality(FragmentsOfDay(d))

\* a registration failed after it committed the Day: the Day is there with a
\* count of 0 and no Fragment
C15_Witness ==
  \E p \in WavPaths, d \in 1..Len(days) :
    /\ reg_calls[p] > 0 /\ last_ret[p] = 0 /\ FragsOf(p) = {}
    /\ extract_date_from_path(p) = Some(days[d].date)
    /\ days[d].total_fragments = 0
    /\ FragmentsOfDay(d) = {}

\* C16: terminal failure is recorded.  A task that finished after the engine
\* gave no result leaves its Fragment with transcribed = false and an error
\* text.
C16_FailureRecorded ==
  \A t \in 1..Len(tasks) :
    (/\ tasks[t].pc = "done"
     /\ tasks[t].fid # 0
     /\ tasks[t].calls > 0
     /\ tasks[t].streak > 0)
    => /\ ~fragments[tasks[t].fid].transcribed
       /\ fragments[tasks[t].fid].processing_error # Null

\* C17: success clears the error.  A Fragment with transcribed = true has no
\* processing_error.
C17_SuccessClearsError ==
  \A f \in 1..Len(fragments) :
    fragments[f].transcribed => fragments[f].processing_error = Null

C19_ScanFeedsPipeline ==
  (scn.name = "single" /\ is_running)
    ~> (\E f \in FragsOf(P1) : fragments[f].transcribed)

\* start() has run and its scan registered the recording: the Fragment is
\* there, but the path is neither pending nor in flight nor processed
C19_Witness ==
  /\ scn.name = "single"
  /\ is_running
  /\ n_events = 0
  /\ \E f \in FragsOf(P1) : ~fragments[f].transcribed
  /\ P1 \notin pending_files
  /\ P1 \notin InFlight
  /\ P1 \notin processed_files

\* no part of path p is a calendar date
NoDatePart(p) == \A i \in 1..Len(p) : p[i] \notin ParsesAsDate

\* C20: extraction failure creates nothing.  A path without a date part never
\* has a Fragment, add_file_to_database returns None for it, it never enters
\* processed_files and no engine call is made for it; a step of its task
\* leaves the registry as it is and ends the task or sends it to its sleep;
\* where no path has a date part the registry stays empty.
C20_ExtractionFailure ==
  /\ [](\A p \in WavPaths : NoDatePart(p) =>
         /\ FragsOf(p) = {}
         /\ last_ret[p] = 0
         /\ p \notin processed_files
         /\ \A t \in 1..Len(tasks) : tasks[t].path = p => tasks[t].calls = 0)
  /\ []((\A p \in scn.paths : NoDatePart(p)) => (days = <<>> /\ fragments = <<>>))
  /\ [][ \A t \in 1..Len(tasks) :
           (/\ NoDatePart(tasks[t].path)
            /\ Len(tasks') >= t
            /\ tasks'[t] # tasks[t]) =>
             /\ tasks'[t].pc \in {"sleep2", "done"}
             /\ tasks'[t].pc = "done" =>
                  tasks'[t].ended \in {"no_fragment", "not_ready"}
             /\ UNCHANGED <<days, fragments>>
      ]_vars

\* tasks for both paths without a date have called add_file_to_database and
\* ended with no Fragment, in a registry that is still empty
C20_Witness ==
  /\ days = <<>> /\ fragments = <<>>
  /\ \E t, u \in 1..Len(tasks) :
       /\ tasks[t].path = P3 /\ tasks[t].ended = "no_fragment"
       /\ tasks[u].path = P6 /\ tasks[u].ended = "no_fragment"
  /\ reg_calls[P3] > 0 /\ reg_calls[P6] > 0
  /\ processed_files = {}

\* C21: the completed set suppresses re-dispatch.  No step creates a task for
\* a path that is in processed_files.
C21_CompletedSuppresses ==
  [][ \A t \in (Len(tasks) + 1)..Len(tasks') :
        tasks'[t].path \notin processed_files ]_vars

\* C21 where the handler's membership test saw the path after it was
\* completed: a path in processed_files and in pending_files at once, put
\* there by a handler that started after the path was completed
C21_Witness ==
  \E p \in processed_files :
    /\ p \in pending_files
    /\ processing_tasks[p] = 0

\* C22: only terminal paths are completed, and a path whose task ended early
\* is dispatched again when it is discovered again.  A step that adds a path
\* to processed_files is the last step of a task of that path that had
\* registered a Fragment and whose engine call returned; a step in which a
\* task ends early adds nothing; and a tick that drained a path found again
\* after its task had ended early, and that has neither an unfinished task
\* nor a place in processed_files, creates a task for it.
C22_OnlyTerminalCompleted ==
  /\ [][ /\ \A p \in processed_files' \ processed_files :
             \E t \in 1..Len(tasks) :
               /\ tasks[t].path = p
               /\ tasks[t].fid # 0
               /\ tasks[t].fid \in FragsOf(p)
               /\ tasks[t].pc \in {"mock", "executor"}
               /\ tasks'[t].pc = "done"
        /\ \A t \in 1..Len(tasks) :
             (/\ Len(tasks') >= t
              /\ tasks[t].pc # "done"
              /\ tasks'[t].pc = "done"
              /\ tasks'[t].ended \in {"not_ready", "no_fragment", "exception"}) =>
               processed_files' = processed_files
      ]_vars
  /\ [][ (tick_pc = "drained" /\ tick_pc' = "idle" /\ n_restarts' = n_restarts) =>
            \A p \in files_to_process :
              (/\ p \notin processed_files
               /\ \E t \in 1..Len(tasks) :
                    tasks[t].path = p /\ tasks[t].found_again
               /\ \A t \in 1..Len(tasks) :
                    tasks[t].path = p => tasks[t].pc = "done") =>
                \E u \in (Len(tasks) + 1)..Len(tasks') : tasks'[u].path = p
      ]_vars

\* a path found again after its task ended because the file was not ready,
\* drained by a tick while the ended task is still in processing_tasks
C22_Witness ==
  /\ tick_pc = "drained"
  /\ \E p \in files_to_process :
       /\ p \notin processed_files
       /\ processing_tasks[p] # 0
       /\ tasks[processing_tasks[p]].ended = "not_ready"
       /\ tasks[processing_tasks[p]].found_again

\* C23: event filtering.  Whenever the handler is about to add a path, its
\* event is a create event of a file whose source path ends with the
\* recording extension and the path is that source path, or a move event of
\* a file whose destination path ends with it and the path is that
\* destination; pending_files grows only by the path of such a handler; and
\* a call of the handler with any other event changes nothing but the count
\* of events.
C23_EventFiltering ==
  /\ [](obs_pc = "checked" =>
          /\ ~event.is_directory
          /\ \/ /\ event.kind = "created"
                /\ event.src_path[Len(event.src_path)] \in WavSuffixed
                /\ obs_path = event.src_path
             \/ /\ event.kind = "moved"
                /\ event.dest_path[Len(event.dest_path)] \in WavSuffixed
                /\ obs_path = event.dest_path)
  /\ [][ /\ ~(pending_files' \subseteq pending_files) =>
             /\ obs_pc = "checked"
             /\ pending_files' = pending_files \cup {obs_path}
        /\ (n_events' # n_events /\ obs_pc' = "idle") =>
             UNCHANGED <<watcher_vars, whisper_vars, registry_vars, hist_vars>>
      ]_vars

\* the handler of a move event is about to add the destination, which is not
\* the path the file was moved from, after an earlier event was ignored
C23_Witness ==
  /\ obs_pc = "checked"
  /\ event.kind = "moved"
  /\ obs_path = P1
  /\ event.src_path = PartFile
  /\ n_events = 2
  /\ pending_files = {}
  /\ tasks = <<>>

\* C24: a missing root degrades.  Where the recordings directory does not
\* exist, start() scans nothing, makes no observer, sets is_running and
\* starts the processing loop; the loop ticks; no event is ever handled; and
\* stop() clears is_running, has no observer to stop and returns.
C24_MissingRootDegrades ==
  /\ [](~scn.root =>
          /\ observer = "none" /\ n_events = 0 /\ obs_pc = "idle"
          /\ days = <<>> /\ fragments = <<>>
          /\ (is_running /\ loops > 0) =>
               (ENABLED TickSnapshot \/ ENABLED TickDispatch))
  /\ [][ ~scn.root =>
           /\ (~is_running /\ is_running') =>
                (loops' = loops + 1 /\ stop_pc' = "idle")
           /\ (is_running /\ ~is_running') =>
                (stop_pc' = "idle" /\ loops' = loops)
      ]_vars

\* the directory is missing, start() has returned and set is_running, the
\* loop has gone through a tick, and stop() has been called and has returned
C24_Witness ==
  /\ ~scn.root
  /\ observer = "none"
  /\ last_sleep = TickInterval
  /\ n_stops = 1
  /\ ~is_running
  /\ stop_pc = "idle"

\* C25: mock mode always succeeds.  Where MOCK_WHISPER is set the model is
\* never loaded, no call goes to the engine and no call fails; the call of a
\* task returns a result, which is committed when the registry is up; and
\* every transcribed Fragment has a text that is not empty, one segment from
\* 0 to 10, the duration 10 and the engine "mock".
C25_MockAlwaysSucceeds ==
  /\ [](cfg.mock_whisper =>
          /\ n_loads = 0 /\ ~model_loaded /\ ~is_initialized
          /\ \A t \in 1..Len(tasks) :
               tasks[t].pc # "executor" /\ tasks[t].streak = 0
          /\ \A f \in 1..Len(fragments) :
               fragments[f].transcribed =>
                 /\ fragments[f].transcript_text \notin {Null, Some("")}
                 /\ fragments[f].whisper_segments = Some(<<[start |-> 0, end |-> 10]>>)
                 /\ fragments[f].duration_seconds = Some(10)
                 /\ fragments[f].whisper_model_used = Some("mock"))
  /\ [][ cfg.mock_whisper =>
           \A t \in 1..Len(tasks) :
             (/\ Len(tasks') >= t
              /\ tasks[t].fid # 0
              /\ tasks[t].pc # "done"
              /\ tasks'[t].pc = "done"
              /\ ~db_down) =>
               /\ tasks[t].pc = "mock"
               /\ fragments'[tasks[t].fid].transcribed
      ]_vars

\* in mock mode the Fragments of two recordings with different names are
\* transcribed, each with the text made from its own name
C25_Witness ==
  /\ cfg.mock_whisper
  /\ \E f, g \in 1..Len(fragments) :
       /\ fragments[f].file_path = P1 /\ fragments[f].transcribed
       /\ fragments[g].file_path = P2 /\ fragments[g].transcribed
       /\ fragments[f].transcript_text # fragments[g].transcript_text

\* C26: a model that is not available falls back to the mock.  In engine
\* mode without the library, or with a load that raises, there is never a
\* model, no call goes to the engine and no call fails, on the first call and
\* on every later one; a task that finishes with the registry up was waiting
\* for the mock and leaves its Fragment transcribed with the mock's result.
C26_FallbackToMock ==
  /\ []((~cfg.mock_whisper /\ cfg.whisper # "loads") =>
          /\ ~model_loaded /\ ~is_initialized
          /\ cfg.whisper = "missing" => n_loads = 0
          /\ \A t \in 1..Len(tasks) :
               tasks[t].pc # "executor" /\ tasks[t].streak = 0
          /\ \A f \in 1..Len(fragments) :
               fragments[f].transcribed =>
                 /\ fragments[f].whisper_model_used = Some("mock")
                 /\ fragments[f].duration_seconds = Some(10))
  /\ [][ (~cfg.mock_whisper /\ cfg.whisper # "loads") =>
           \A t \in 1..Len(tasks) :
             (/\ Len(tasks') >= t
              /\ tasks[t].fid # 0
              /\ tasks[t].pc # "done"
              /\ tasks'[t].pc = "done") =>
               /\ tasks[t].pc = "mock"
               /\ fragments'[tasks[t].fid].transcribed
      ]_vars

\* the load raised on two calls and both calls gave the mock's result
C26_Witness ==
  /\ cfg = LoadFails
  /\ n_loads = 2
  /\ \E t, u \in 1..Len(tasks) :
       /\ t # u
       /\ tasks[t].calls = 1 /\ tasks[t].ended = "processed"
       /\ tasks[u].calls = 1 /\ tasks[u].ended = "processed"
       /\ fragments[tasks[t].fid].whisper_model_used = Some("mock")
       /\ fragments[tasks[u].fid].whisper_model_used = Some("mock")

\* C27: idempotent lazy initialization.  There is a model only after a call
\* loaded it; where the load succeeds, at most one load is made between
\* construction or cleanup() and the next cleanup(), whatever calls of
\* initialize() and transcribe_file follow from whatever tasks: a load is made
\* only while is_initialized is false, and a step that leaves is_initialized
\* set makes no load and keeps the model.
C27_LazyInitOnce ==
  /\ [](/\ model_loaded => (is_initialized /\ n_loads >= 1)
        /\ cfg.whisper = "loads" => n_loads <= 1
        /\ (cfg.whisper = "loads" /\ n_loads = 1) => model_loaded)
  /\ [][ /\ n_loads' > n_loads => ~is_initialized
        /\ (is_initialized /\ is_initialized') =>
             (n_loads' = n_loads /\ model_loaded' = model_loaded)
      ]_vars

\* one load served two tasks whose engine calls run at the same time
C27_Witness ==
  /\ cfg = EngineFree
  /\ n_loads = 1
  /\ model_loaded
  /\ \E t, u \in 1..Len(tasks) :
       /\ t # u
       /\ tasks[t].pc = "executor"
       /\ tasks[u].pc = "executor"

Outcome(f) ==
  <<f.transcribed, f.transcript_text, f.whisper_segments, f.whisper_model_used,
    f.duration_seconds, f.processing_error, f.retry_count>>

\* in this step the engine call of task t returns
EngineReturns(t) ==
  /\ t \in 1..Len(tasks) /\ t \in 1..Len(tasks')
  /\ tasks[t].pc \in {"mock", "executor"}
  /\ tasks'[t].pc = "done"

\* C30: strict ordering within one file.  A task whose engine call has been
\* made holds the id of a committed Fragment of its path; the transcription
\* outcome of a Fragment is written only in a step in which the engine call
\* of a task holding that Fragment returns, and a Fragment is created without
\* an outcome; a path enters processed_files only in a step in which the
\* engine call of a task of that path returns, and with a result and the
\* registry up the outcome is committed by then.
C30_StrictOrdering ==
  /\ [](\A t \in 1..Len(tasks) :
          (tasks[t].pc \in {"mock", "executor"} \/ tasks[t].calls > 0) =>
            /\ tasks[t].fid \in 1..Len(fragments)
            /\ fragments[tasks[t].fid].file_path = tasks[t].path)
  /\ [][ \A f \in 1..Len(fragments') :
           IF f \in 1..Len(fragments)
           THEN Outcome(fragments'[f]) # Outcome(fragments[f]) =>
                  \E t \in 1..Len(tasks) : EngineReturns(t) /\ tasks[t].fid = f
           ELSE ~fragments'[f].transcribed /\ fragments'[f].processing_error = Null
        ]_vars
  /\ [][ \A p \in processed_files' \ processed_files :
           \E t \in 1..Len(tasks) :
             /\ EngineReturns(t)
             /\ tasks[t].path = p
             /\ (cfg.mock_whisper /\ ~db_down) => fragments'[tasks[t].fid].transcribed
        ]_vars

\* one file has gone through registration, engine call, commit and the
\* completed set, while the engine call of another is still running on its
\* registered, untranscribed Fragment
C30_Witness ==
  \E t, u \in 1..Len(tasks) :
    /\ tasks[t].ended = "processed"
    /\ tasks[t].path \in processed_files
    /\ fragments[tasks[t].fid].transcribed
    /\ tasks[u].pc \in {"mock", "executor"}
    /\ tasks[u].path \notin processed_files
    /\ tasks[u].fid \in 1..Len(fragments)
    /\ ~fragments[tasks[u].fid].transcribed

\* C31: no dispatch after shutdown has begun.  While is_running is false no
\* tick is under way and no step creates a task, whatever pending_files
\* holds and whatever is added to it.
C31_NoDispatchAfterStop ==
  /\ [](~is_running => tick_pc = "idle")
  /\ [][ ~is_running => Len(tasks') <= Len(tasks) ]_vars

\* stop() was called while a path was pending, or the joined observer thread
\* added one afterwards; the loop has returned and the path is still
\* pending, with no task made for it
C31_Witness ==
  /\ n_stops > 0
  /\ ~is_running
  /\ loops = 0
  /\ \E p \in pending_files : \A t \in 1..Len(tasks) : tasks[t].path # p

\* the paths whose entry in processing_tasks is a finished task
Finished == {p \in WavPaths : /\ processing_tasks[p] # 0
                              /\ tasks[processing_tasks[p]].pc = "done"}

\* C32: in-flight slots are reclaimed.  A tick leaves no entry of a finished
\* task in processing_tasks, however the task ended; and while the watcher
\* keeps running, a state with such an entry leads to one without any, where
\* the number of entries is the number of unfinished tasks.
C32_SlotsReclaimed ==
  /\ [][ (tick_pc = "drained" /\ tick_pc' = "idle") =>
           \A p \in WavPaths :
             processing_tasks'[p] # 0 => tasks'[processing_tasks'[p]].pc # "done"
        ]_vars
  /\ ((is_running /\ Finished # {}) ~>
        (\/ ~is_running
         \/ /\ Finished = {}
            /\ Cardinality(InFlight) = Cardinality(Unfinished)))

\* the watcher is running; one entry is a task that ended with an exception,
\* another a task that ended normally, and the next tick has not come yet
C32_Witness ==
  /\ is_running
  /\ \E p, q \in Finished :
       /\ tasks[processing_tasks[p]].ended = "exception"
       /\ tasks[processing_tasks[q]].ended = "processed"

\* C33: no pending path is lost by the drain.  In the step that clears
\* pending_files, every path that was in it is in the batch the loop took or
\* is still in pending_files afterwards.
C33_DrainLosesNothing ==
  [][ (tick_pc = "drained" /\ tick_pc' = "idle") =>
        \A p \in pending_files : p \in files_to_process \/ p \in pending_files'
    ]_vars

\* the observer thread has added a path after the loop took its batch and
\* before the loop cleared pending_files
C33_Witness ==
  /\ tick_pc = "drained"
  /\ obs_pc = "idle"
  /\ \E p \in pending_files : p \notin files_to_process

\* the tasks of path p that reached the engine call
Engaged(p) == {t \in 1..Len(tasks) : tasks[t].path = p /\ tasks[t].calls > 0}

\* C34: no lost update on the shared Day.  Take two tasks of different files
\* whose Fragments belong to one Day, no file of that Day having been
\* processed twice.  The Day counts every Fragment registered for it; and
\* once every task has ended, its total duration is the sum of the durations
\* of its transcribed Fragments, in whatever order the tasks registered and
\* committed.
C34_NoLostUpdate ==
  \A t, u \in 1..Len(tasks) :
    (/\ tasks[t].path # tasks[u].path
     /\ tasks[t].fid # 0 /\ tasks[u].fid # 0
     /\ fragments[tasks[t].fid].day_id = fragments[tasks[u].fid].day_id
     /\ n_restarts = 0) =>
      LET d == fragments[tasks[t].fid].day_id
      IN /\ days[d].total_fragments = Cardinality(FragmentsOfDay(d))
         /\ days[d].total_fragments >= 2
         /\ (/\ \A f \in FragmentsOfDay(d) :
                   Cardinality(Engaged(fragments[f].file_path)) <= 1
             /\ \A v \in 1..Len(tasks) : tasks[v].pc = "done") =>
               days[d].total_duration_seconds = TranscribedDuration(d, Len(fragments))

\* two recordings of one date appeared after the start; their tasks
\* registered them, one while the other was awaiting its engine call, and
\* both committed: the Day counts 2 Fragments and the sum of both durations
C34_Witness ==
  /\ scn.name = "arrivals"
  /\ \E t, u \in 1..Len(tasks) :
       /\ u \in tasks[t].beside
       /\ tasks[t].path = P4 /\ tasks[u].path = P1
       /\ reg_calls[P1] = 1 /\ reg_calls[P4] = 1
       /\ tasks[t].ended = "processed" /\ tasks[u].ended = "processed"
       /\ fragments[tasks[t].fid].transcribed
       /\ fragments[tasks[u].fid].transcribed
       /\ Len(days) = 1
       /\ days[1].total_fragments = 2
       /\ days[1].total_duration_seconds =
            fragments[tasks[t].fid].duration_seconds[1]
            + fragments[tasks[u].fid].duration_seconds[1]

\* C35: one Day per date.  No two Days have the same date; no step removes
\* a Day or changes its date; and a step adds a Day only for the date of a
\* recording, when the registry held no Day of that date.
C35_OneDayPerDate ==
  /\ [](\A i, j \in 1..Len(days) : days[i].date = days[j].date => i = j)
  /\ [][ /\ Len(days') >= Len(days)
         /\ \A i \in 1..Len(days) : days'[i].date = days[i].date
         /\ \A i \in (Len(days) + 1)..Len(days') :
              /\ DaysOf(days'[i].date) = {}
              /\ \E p \in scn.paths :
                   extract_date_from_path(p) = Some(days'[i].date)
       ]_vars

\* the tasks of two recordings of one date, registered by the tasks
\* themselves, are both awaiting their engine call: the registry holds one
\* Day, to which both Fragments belong
C35_Witness ==
  /\ scn.name = "arrivals"
  /\ reg_calls[P1] = 1 /\ reg_calls[P4] = 1
  /\ \E t, u \in 1..Len(tasks) :
       /\ tasks[t].path = P1 /\ tasks[u].path = P4
       /\ tasks[t].pc = "mock" /\ tasks[u].pc = "mock"
       /\ fragments[tasks[t].fid].day_id = 1
       /\ fragments[tasks[u].fid].day_id = 1
  /\ Len(days) = 1

\* C36: single scheduler loop.  At most one processing_loop coroutine is
\* alive, whatever start() and stop() calls were made.
C36_SingleLoop == loops <= 1

\* the watcher was stopped, its loop returned, and it was started again: one
\* loop is alive
C36_Witness ==
  /\ n_stops > 0
  /\ is_running
  /\ loops = 1

\* the task of P1 found the file not ready twice and returned
GaveUp == \E t \in 1..Len(tasks) :
            tasks[t].path = P1 /\ tasks[t].ended = "not_ready"

\* a Fragment of P1 has its outcome: transcribed, or an error recorded
Settled == \E f \in FragsOf(P1) :
             fragments[f].transcribed \/ fragments[f].processing_error # Null

\* C37: a file that stabilizes is eventually processed.  When the recording
\* P1 was discovered while it was written, its task found it not ready, and
\* the file has reached its final, non-empty size, then, unless the watcher is
\* stopped, a Fragment of P1 gets its outcome.
C37_StabilizedProcessed ==
  (scn.writing /\ is_running /\ GaveUp /\ fsize[P1] = SizeLimit(scn))
    ~> (~is_running \/ Settled)

\* the recording has its final size, its task has given up, nothing is
\* pending or in flight and no Fragment of it exists; the watcher is running
C37_Witness ==
  /\ scn.writing /\ is_running
  /\ GaveUp
  /\ fsize[P1] = SizeLimit(scn)
  /\ P1 \notin pending_files
  /\ processing_tasks[P1] = 0
  /\ obs_pc = "idle" /\ tick_pc = "idle"
  /\ FragsOf(P1) = {}

\* C38: sent only after a confirmed transfer.  Every path in sent_files had
\* an attempt whose copy succeeded and, with verification enabled, whose
\* remote size equalled the local one; a step adds a path only as the file
\* of a send_file call that returned True; and find_new_files returns no
\* path that is in sent_files.
C38_SentOnlyConfirmed ==
  /\ [](sender.sent_files \subseteq sender.confirmed)
  /\ [](sender.found.files \cap sender.found.sent_files = {})
  /\ [][ \A f \in sender'.sent_files \ sender.sent_files :
           /\ sender'.last.file = f
           /\ sender'.last.ret
           /\ f \in sender'.confirmed
       ]_vars

\* with verification enabled one recording was sent and is still on the Pi;
\* find_new_files then returned the other recording only
C38_Witness ==
  /\ scn.name = "pi"
  /\ sender.verification_enabled
  /\ sender.sent_files = {SentFile}
  /\ sender.local[SentFile] # "absent"
  /\ sender.found = [files |-> {OtherFile}, sent_files |-> {SentFile}]

\* C39: cleanup never deletes an unsent recording.  A step removes a
\* recording from the Pi only if its path is in sent_files and it is old, and
\* the path is then no longer in sent_files; and a path leaves sent_files
\* only with its recording.
C39_CleanupKeepsUnsent ==
  [][ /\ \A f \in LocalFiles :
           (sender.local[f] # "absent" /\ sender'.local[f] = "absent") =>
             /\ f \in sender.sent_files
             /\ sender.local[f] = "old"
             /\ f \notin sender'.sent_files
      /\ \A f \in sender.sent_files \ sender'.sent_files :
           sender.local[f] = "old" /\ sender'.local[f] = "absent"
    ]_vars

\* cleanup has deleted the sent recording and discarded its path, and has
\* left an old recording that was never sent where it was
C39_Witness ==
  /\ sender.local[SentFile] = "absent"
  /\ SentFile \in sender.confirmed
  /\ SentFile \notin sender.sent_files
  /\ sender.cache = sender.sent_files
  /\ sender.local[OtherFile] = "old"
  /\ OtherFile \notin sender.confirmed

====
